---- MODULE Spec2Model ----
(***************************************************************************)
(* Model of the opportunity detection and scoring engine of the            *)
(* dex-app-telegram repository:                                            *)
(*   - analysis/analyzer.py            OpportunityAnalyzer                 *)
(*   - services/onchain_price_validator.py  OnChainPriceValidator          *)
(*   - analysis/multi_leg_analyzer.py  cycle finder                        *)
(* Python floats are modelled as exact rationals <<n, d>> (d > 0, reduced) *)
(* extended with the IEEE values nan, +inf and -inf, because float()       *)
(* accepts the strings "nan" and "inf" and every comparison with nan is    *)
(* false.                                                                  *)
(***************************************************************************)
EXTENDS Integers, Sequences, FiniteSets, TLC

VARIABLES
    \* ---- OpportunityAnalyzer.find_opportunities ----
    cfg,             \* the AppConfig fields the analyzer reads
    chain_name,      \* argument chain_name
    gas_price_gwei,  \* argument gas_price_gwei
    scanned,         \* how many records of pairs_data['pairs'] the first loop has visited
    prices_by_pair,  \* pair_name -> list of quotes
    pos,             \* <<group, i, j>> of the second loop
    opportunities,   \* the list being built
    apc,             \* "scan" | "compare" | "returned" | "raised"
    raised,          \* the exception that escaped, or "none"
    impact_drops     \* history: venue pairs dropped by the price-impact check

avars == <<cfg, chain_name, gas_price_gwei, scanned, prices_by_pair, pos,
           opportunities, apc, raised, impact_drops>>

VARIABLES
    \* ---- OnChainPriceValidator ----
    block_cache,      \* _block_cache: (block_number, fetched at) or unset
    token_cache,      \* _reserve_cache["tokens:<pair>"]
    reserve_cache,    \* _reserve_cache["reserves:<pair>:<block>"]
    decimals_cache,   \* _decimals_cache
    next_request_id,  \* _next_request_id
    now,              \* time.monotonic() as last read
    calls_started,    \* validate_pair_price calls made so far
    calls,            \* task -> the validate_pair_price call it is running
    requests,         \* the "id" of each JSON-RPC payload posted so far, in order
    last_validated    \* history: the last call that returned validated=True

vvars == <<block_cache, token_cache, reserve_cache, decimals_cache,
           next_request_id, now, calls_started, calls, requests, last_validated>>

VARIABLES
    \* ---- build_graph_from_pairs / find_multi_leg_opportunities ----
    mcfg,             \* the AppConfig fields the cycle finder reads
    m_pairs,          \* the raw pair list, as far as it has been iterated
    graph,            \* <<u, v>> -> edge attributes (nx.DiGraph)
    token_prices_usd, \* token address -> USD price, or unknown
    m_cycles,         \* the cycles nx.simple_cycles yields, still to be visited
    m_opps,           \* the list being built
    mpc               \* "build" | "find" | "cycles" | "returned"

mvars == <<mcfg, m_pairs, graph, token_prices_usd, m_cycles, m_opps, mpc>>

VARIABLES
    \* ---- calculate_momentum_score / calculate_rsi ----
    score_args,       \* the arguments of the last calculate_momentum_score call
    score_result,     \* what it returned: (final_score, interpretation tier)
    rsi_args,         \* the arguments of the last calculate_rsi call
    rsi_result,       \* what it returned or raised
    \* ---- ArbitrageScanner._send_telegram_notification ----
    alert_cfg,               \* the AppConfig fields and clients the handler reads
    alert_cache,             \* alert_cache[opp_key]: time of the last alert, or unset
    opportunity_persistence, \* opportunity_persistence[opp_key]: sighting times
    alert_now,               \* time.time() as last read
    notify_calls,            \* _send_telegram_notification calls made so far
    last_notification,       \* what the last call did
    prune_calls,             \* _prune_alert_cache calls made so far
    dispatched               \* history: the timestamps recorded by the alerts sent

\* the variables of the components added after the first three
nvars == <<alert_cfg, alert_cache, opportunity_persistence, alert_now, notify_calls,
           last_notification, prune_calls, dispatched>>
svars == <<score_args, score_result, rsi_args, rsi_result, nvars>>

vars == <<avars, vvars, mvars, svars>>

(***************************************************************************)
(* Exact rational arithmetic                                               *)
(***************************************************************************)
Abs(x) == IF x < 0 THEN -x ELSE x

RECURSIVE Gcd(_, _)
Gcd(a, b) == IF b = 0 THEN a ELSE Gcd(b, a % b)

Norm(n, d) ==
    LET g == Gcd(Abs(n), Abs(d))
        s == IF d < 0 THEN -1 ELSE 1
    IN  IF n = 0 THEN <<0, 1>> ELSE <<s * (n \div g), s * (d \div g)>>

R(n) == <<n, 1>>
RAdd(a, b) == Norm(a[1] * b[2] + b[1] * a[2], a[2] * b[2])
RNeg(a) == <<-a[1], a[2]>>
RSub(a, b) == RAdd(a, RNeg(b))
\* cross-cancelling keeps the intermediate products small
RMul(a, b) ==
    LET x == Norm(a[1], b[2])
        y == Norm(b[1], a[2])
    IN  Norm(x[1] * y[1], x[2] * y[2])
RInv(a) == Norm(a[2], a[1])
RDiv(a, b) == RMul(a, RInv(b))
RLt(a, b) == a[1] * b[2] < b[1] * a[2]
RLe(a, b) == a[1] * b[2] <= b[1] * a[2]
RSign(a) == IF a[1] > 0 THEN 1 ELSE IF a[1] < 0 THEN -1 ELSE 0

(***************************************************************************)
(* Python floats: [k |-> "fin", v |-> rational] | nan | +inf | -inf        *)
(***************************************************************************)
Fin(r) == [k |-> "fin", v |-> r]
F(n) == Fin(R(n))
NaN == [k |-> "nan", v |-> R(0)]
PInf == [k |-> "pinf", v |-> R(1)]
NInf == [k |-> "ninf", v |-> R(-1)]
IsNaN(x) == x.k = "nan"
IsInf(x) == x.k \in {"pinf", "ninf"}
IsFin(x) == x.k = "fin"
FSign(x) == IF x.k = "pinf" THEN 1 ELSE IF x.k = "ninf" THEN -1 ELSE RSign(x.v)
InfOf(s) == IF s > 0 THEN PInf ELSE NInf

FLt(x, y) ==
    /\ ~IsNaN(x) /\ ~IsNaN(y)
    /\ CASE x.k = "ninf" -> y.k # "ninf"
         [] x.k = "pinf" -> FALSE
         [] OTHER -> (y.k = "pinf" \/ (y.k = "fin" /\ RLt(x.v, y.v)))
FEq(x, y) == ~IsNaN(x) /\ ~IsNaN(y) /\ x.k = y.k /\ (x.k = "fin" => x.v = y.v)
FLe(x, y) == FLt(x, y) \/ FEq(x, y)
FGt(x, y) == FLt(y, x)
FGe(x, y) == FLe(y, x)

FNeg(x) == CASE x.k = "fin" -> Fin(RNeg(x.v))
             [] x.k = "pinf" -> NInf
             [] x.k = "ninf" -> PInf
             [] OTHER -> NaN
FAdd(x, y) ==
    CASE IsNaN(x) \/ IsNaN(y) -> NaN
      [] IsFin(x) /\ IsFin(y) -> Fin(RAdd(x.v, y.v))
      [] IsInf(x) /\ IsInf(y) -> IF x.k = y.k THEN x ELSE NaN
      [] IsInf(x) -> x
      [] OTHER -> y
FSub(x, y) == FAdd(x, FNeg(y))
FMul(x, y) ==
    CASE IsNaN(x) \/ IsNaN(y) -> NaN
      [] IsFin(x) /\ IsFin(y) -> Fin(RMul(x.v, y.v))
      [] FSign(x) = 0 \/ FSign(y) = 0 -> NaN
      [] OTHER -> InfOf(FSign(x) * FSign(y))
\* float / float for a divisor the caller knows to be non-zero
FDiv(x, y) ==
    CASE IsNaN(x) \/ IsNaN(y) -> NaN
      [] IsFin(x) /\ IsFin(y) -> Fin(RDiv(x.v, y.v))
      [] IsInf(x) /\ IsInf(y) -> NaN
      [] IsInf(x) -> InfOf(FSign(x) * (IF FSign(y) < 0 THEN -1 ELSE 1))
      [] OTHER -> F(0)
\* Python's min(a, b, ...): keeps the earlier argument unless a later one is
\* strictly smaller
PyMin2(x, y) == IF FLt(y, x) THEN y ELSE x


(***************************************************************************)
(* OpportunityAnalyzer.find_opportunities: inputs                          *)
(***************************************************************************)
MaxPairs == 2            \* records in pairs_data['pairs']

TargetToken == "t"       \* target_token.lower()
Chains == {"base", "solana"}
Dexes == {"aerodrome", "sushiswap"}
PairNames == <<"T/USDC", "WETH/T">>     \* in sorted() order

GasUnitsBase == 85000
GAS_UNITS_PER_SWAP == [c \in {"base"} |-> GasUnitsBase]
NativePriceUsd == F(2000)

\* a raw priceUsd / priceNative value: key absent, null, a string float()
\* rejects, or a string float() accepts (its value)
Raw(k) == [k |-> k, v |-> R(0)]
RawMissing == Raw("missing")
RawNull == Raw("null")
RawJunk == Raw("junk")

\* liquidity.usd, volume.h24, volume.m5, txns.h1 buys and sells, txns.m5 buys and sells
Profile(l, v, m, hb, hs, mb, ms) ==
    [liq |-> l, h24 |-> v, m5 |-> m, h1_buys |-> hb, h1_sells |-> hs,
     m5_buys |-> mb, m5_sells |-> ms]
DeepProfile == Profile(200000, 300000, 25000, 3, 2, 2, 1)
QuietProfile == Profile(200000, 300000, 25000, 0, 0, 2, 1)   \* no trade in the last hour
MidProfile == Profile(20000, 1100, 0, 3, 2, 0, 0)
Mid2Profile == Profile(20000, 1000, 0, 3, 2, 0, 0)
ThinProfile == Profile(100, 1000, 0, 3, 2, 0, 0)
SlowProfile == Profile(200000, 300000, 25000, 0, 0, 1, 1)    \* two trades in five minutes
StaleProfile == Profile(200000, 1000000, 25000, 0, 0, 2, 1)  \* m5 / h24 below the ratio
SmallProfile == Profile(30000, 300000, 0, 3, 2, 0, 0)         \* caps the trade at 150 USD
Profiles == {DeepProfile, QuietProfile, MidProfile, Mid2Profile, ThinProfile,
             SlowProfile, StaleProfile, SmallProfile}

\* shape: which part of the record is malformed
Pair(shape, chain, dex, side, pusd, pnat, prof) ==
    [shape |-> shape, chainId |-> chain, dexId |-> dex, side |-> side,
     priceUsd |-> pusd, priceNative |-> pnat, prof |-> prof]

RawPairs ==
    \* well-formed records quoting the target as base token
    { Pair("ok", "base", d, "base", p, F(1), pr) :
        d \in Dexes, p \in {F(100), F(105)}, pr \in Profiles }
    \* prices float() accepts that are no positive number
    \cup { Pair("ok", "base", d, "base", p, F(1), DeepProfile) :
             d \in Dexes, p \in {NaN, PInf, F(0)} }
    \* records of the other chain
    \cup { Pair("ok", "solana", d, "base", F(100), F(1), DeepProfile) : d \in Dexes }
    \cup { Pair("ok", "solana", "sushiswap", "base", F(105), F(1), DeepProfile) }
    \* records quoting the target as quote token: price = priceUsd / priceNative
    \cup { Pair("ok", "base", "aerodrome", "quote", F(100), pn, DeepProfile) :
             pn \in {F(0), F(1)} }
    \cup { Pair("ok", "base", "sushiswap", "quote", F(100), pn, DeepProfile) :
             pn \in {Fin(<<20, 21>>), NaN} }
    \* records about other tokens, and unparseable or absent prices
    \cup { Pair("ok", "base", "aerodrome", "none", F(100), F(1), DeepProfile) }
    \cup { Pair("ok", "base", "aerodrome", "base", p, F(1), DeepProfile) :
             p \in {RawMissing, RawNull, RawJunk} }
    \cup { Pair("ok", "base", "aerodrome", "base", F(100), pn, DeepProfile) :
             pn \in {RawMissing, RawJunk} }
    \* structurally malformed records
    \cup { Pair(s, "base", "aerodrome", "base", F(100), F(1), pr) :
             s \in {"not_a_dict", "liquidity_null", "liquidity_usd_null",
                    "dexId_missing", "symbol_missing", "address_missing"},
             pr \in {DeepProfile, ThinProfile} }

BASE_ALLOWED_SINGLES == {"aerodrome", "uniswap", "uniswap-v3"}

Config(ml, mv, mt, mbear, mbull) ==
    [min_liquidity |-> F(ml), min_volume |-> F(mv), min_txns_h1 |-> mt,
     min_bearish_discrepancy |-> F(mbear), min_bullish_profit |-> F(mbull),
     trade_volume |-> F(500), slippage |-> Fin(<<1, 2>>), dex_fee |-> Fin(<<3, 10>>),
     limit_base_dexes |-> FALSE]
\* the same settings with --limit-base-dexes given or not
WithLimit(config, limit_base_dexes) ==
    [config EXCEPT !.limit_base_dexes = limit_base_dexes]
Configs ==
    { WithLimit(Config(lt[1], lt[1], lt[2], mb[1], mb[2]), lim) :
        lt \in {<<0, 0>>, <<1000, 1>>}, mb \in {<<1, 0>>, <<1, 4>>, <<10, 10>>},
        lim \in BOOLEAN }

(***************************************************************************)
(* First loop: one raw record -> raise | skip | quote                      *)
(***************************************************************************)
EARLY_MOMENTUM_MIN_LIQUIDITY == 200000
EARLY_MOMENTUM_MIN_VOLUME == 300000
EARLY_MOMENTUM_MIN_VOLUME_M5 == 25000
EARLY_MOMENTUM_MIN_TXNS_M5 == 3
EARLY_MOMENTUM_VOLUME_RATIO_THRESHOLD == Fin(<<35, 1000>>)

\* the candidate test without its volume-ratio floor
_is_early_momentum_candidate_NoRatio(liquidity, volume_24h, volume_m5, txns_m5) ==
    /\ liquidity >= EARLY_MOMENTUM_MIN_LIQUIDITY
    /\ volume_24h >= EARLY_MOMENTUM_MIN_VOLUME
    /\ volume_m5 >= EARLY_MOMENTUM_MIN_VOLUME_M5
    /\ txns_m5 >= EARLY_MOMENTUM_MIN_TXNS_M5
_is_early_momentum_candidate(liquidity, volume_24h, volume_m5, txns_m5) ==
    IF liquidity < EARLY_MOMENTUM_MIN_LIQUIDITY THEN FALSE
    ELSE IF volume_24h < EARLY_MOMENTUM_MIN_VOLUME THEN FALSE
    ELSE IF volume_m5 < EARLY_MOMENTUM_MIN_VOLUME_M5 THEN FALSE
    ELSE IF txns_m5 < EARLY_MOMENTUM_MIN_TXNS_M5 THEN FALSE
    ELSE IF volume_24h <= 0 THEN FALSE
    ELSE FGe(Fin(Norm(volume_m5, volume_24h)), EARLY_MOMENTUM_VOLUME_RATIO_THRESHOLD)

\* float(x): a ValueError/TypeError for null and junk
FloatOk(raw) == raw.k \in {"fin", "nan", "pinf", "ninf"}

Skip == [kind |-> "skip"]
\* the `continue` of the price-impact check
ImpactSkip == [kind |-> "skip", at |-> "price_impact"]
Raise(e) == [kind |-> "raise", exc |-> e]

ScanRecord(config, chain, pair) ==
    IF pair.shape = "not_a_dict" THEN Raise("AttributeError")
    ELSE IF pair.chainId # chain THEN Skip
    ELSE IF pair.shape = "liquidity_null" THEN Raise("AttributeError")
    ELSE IF pair.shape = "liquidity_usd_null" THEN Raise("TypeError")
    ELSE
    LET liq_usd == pair.prof.liq
        vol_24h == pair.prof.h24
        vol_m5 == pair.prof.m5
        h1_total_txns == pair.prof.h1_buys + pair.prof.h1_sells
        txns_m5_total == pair.prof.m5_buys + pair.prof.m5_sells
        liquidity_ok == FGe(F(liq_usd), config.min_liquidity)
        volume_ok == FGe(F(vol_24h), config.min_volume)
        txns_ok == config.min_txns_h1 = 0 \/ h1_total_txns >= config.min_txns_h1
        standard == liquidity_ok /\ volume_ok /\ txns_ok
        is_early_momentum ==
            ~standard /\ _is_early_momentum_candidate(liq_usd, vol_24h, vol_m5, txns_m5_total)
        quote(name, price) ==
            [kind |-> "quote", name |-> name,
             q |-> [dex |-> pair.dexId, price |-> price, liquidity |-> liq_usd,
                    volume_24h |-> vol_24h, volume_m5 |-> vol_m5,
                    txns_m5_total |-> txns_m5_total,
                    is_early_momentum |-> is_early_momentum]]
    IN  IF ~standard /\ ~is_early_momentum THEN Skip
        ELSE IF pair.shape = "dexId_missing" \/ pair.priceUsd.k = "missing"
                \/ pair.priceNative.k = "missing" THEN Skip
        ELSE IF pair.shape = "symbol_missing" THEN Raise("KeyError")
        ELSE IF ~FloatOk(pair.priceUsd) \/ ~FloatOk(pair.priceNative) THEN Skip
        ELSE IF pair.side = "base" THEN
            IF pair.shape = "address_missing" THEN Raise("KeyError")
            ELSE quote("T/USDC", pair.priceUsd)
        ELSE IF pair.side = "quote" THEN
            IF FEq(pair.priceNative, F(0)) THEN Skip
            ELSE IF pair.shape = "address_missing" THEN Raise("KeyError")
            ELSE quote("WETH/T", FDiv(pair.priceUsd, pair.priceNative))
        ELSE Skip


(***************************************************************************)
(* Second loop: one venue combination (dex_a, dex_b) -> raise | skip | opp *)
(***************************************************************************)
\* lower_option is dex_a
LowerIsA(dex_a, dex_b) == FLt(dex_a.price, dex_b.price)

\* dominant_option is dex_a
DominantIsA(dex_a, dex_b) ==
    IF dex_a.volume_24h = dex_b.volume_24h THEN LowerIsA(dex_a, dex_b)
    ELSE dex_a.volume_24h > dex_b.volume_24h

DominantVolumeRatio(dominant_option, other_option) ==
    IF other_option.volume_24h > 0
    THEN Fin(Norm(dominant_option.volume_24h, other_option.volume_24h))
    ELSE PInf

MinBearishRatio == Fin(<<12, 10>>)

\* the two BEARISH gates taken before the trade is sized
BearishGate(config, direction, profit_percentage, dominant_volume_ratio) ==
    /\ ~(direction = "BEARISH" /\ FLt(profit_percentage, config.min_bearish_discrepancy))
    /\ ~(direction = "BEARISH" /\ FLt(dominant_volume_ratio, MinBearishRatio))

LiquidityShare == Fin(<<5, 1000>>)         \* 0.005
EarlyLiquidityShare == Fin(<<2, 1000>>)    \* 0.002

EffectiveVolume_NoEarlyCap(config, buy_option, sell_option, opportunity_is_early) ==
    PyMin2(PyMin2(config.trade_volume, FMul(F(buy_option.liquidity), LiquidityShare)),
           FMul(F(sell_option.liquidity), LiquidityShare))
EffectiveVolume(config, buy_option, sell_option, opportunity_is_early) ==
    LET base == PyMin2(PyMin2(config.trade_volume,
                              FMul(F(buy_option.liquidity), LiquidityShare)),
                       FMul(F(sell_option.liquidity), LiquidityShare))
        minliq == IF sell_option.liquidity < buy_option.liquidity
                  THEN sell_option.liquidity ELSE buy_option.liquidity
    IN  IF opportunity_is_early
        THEN PyMin2(base, FMul(F(minliq), EarlyLiquidityShare))
        ELSE base

PriceImpactPct(effective_volume, liquidity) ==
    IF liquidity > 0
    THEN FMul(FDiv(effective_volume, F(liquidity)), F(100))
    ELSE PInf

GasCostUsd(gwei, gas_units) ==
    FMul(FMul(FMul(FMul(gwei, Fin(<<1, 1000000000>>)), F(gas_units)), F(2)),
         NativePriceUsd)

CompareVenues(config, chain, gwei, pair_name, dex_a, dex_b) ==
    IF dex_a.dex = dex_b.dex THEN Skip
    ELSE IF FLe(dex_a.price, F(0)) \/ FLe(dex_b.price, F(0)) THEN Skip
    ELSE IF FEq(dex_a.price, dex_b.price) THEN Skip
    ELSE
    LET lower_is_a == LowerIsA(dex_a, dex_b)
        lower_option == IF lower_is_a THEN dex_a ELSE dex_b
        higher_option == IF lower_is_a THEN dex_b ELSE dex_a
        dominant_is_a == DominantIsA(dex_a, dex_b)
        dominant_option == IF dominant_is_a THEN dex_a ELSE dex_b
        dominant_is_buy_side == (dominant_is_a = lower_is_a)
        direction == IF dominant_is_buy_side THEN "BULLISH" ELSE "BEARISH"
        other_option == IF dominant_is_buy_side THEN higher_option ELSE lower_option
        dominant_volume_ratio == DominantVolumeRatio(dominant_option, other_option)
        buy_option == lower_option
        sell_option == higher_option
        gross_diff == FSub(sell_option.price, buy_option.price)
        profit_percentage == FMul(FDiv(gross_diff, buy_option.price), F(100))
        opportunity_is_early ==
            buy_option.is_early_momentum \/ sell_option.is_early_momentum
        effective_volume ==
            EffectiveVolume(config, buy_option, sell_option, opportunity_is_early)
        slippage_cost == FMul(effective_volume, FDiv(config.slippage, F(100)))
        buy_price_impact_pct == PriceImpactPct(effective_volume, buy_option.liquidity)
        sell_price_impact_pct == PriceImpactPct(effective_volume, sell_option.liquidity)
        price_impact_pct == FAdd(buy_price_impact_pct, sell_price_impact_pct)
        impact_threshold == IF opportunity_is_early THEN F(2) ELSE Fin(<<3, 2>>)
        price_impact_cost == FMul(effective_volume, FDiv(price_impact_pct, F(100)))
        dex_fee_cost == FMul(FMul(effective_volume, F(2)), FDiv(config.dex_fee, F(100)))
        gas_cost_usd == GasCostUsd(gwei, GAS_UNITS_PER_SWAP[chain])
        gross_profit_usd == FMul(FDiv(gross_diff, buy_option.price), effective_volume)
        net_profit_usd ==
            FSub(FSub(FSub(FSub(gross_profit_usd, gas_cost_usd), dex_fee_cost),
                      slippage_cost), price_impact_cost)
    IN  IF FLe(gross_diff, F(0)) THEN Skip
        ELSE IF ~BearishGate(config, direction, profit_percentage, dominant_volume_ratio)
        THEN Skip
        ELSE IF FLt(effective_volume, F(1)) THEN Skip
        ELSE IF IsInf(price_impact_pct) \/ FGt(price_impact_pct, impact_threshold)
        THEN ImpactSkip
        ELSE IF chain \notin DOMAIN GAS_UNITS_PER_SWAP THEN Raise("KeyError")
        ELSE IF FLe(net_profit_usd, F(0)) THEN Skip
        ELSE IF direction = "BULLISH" /\ FLt(profit_percentage, config.min_bullish_profit)
        THEN Skip
        ELSE [kind |-> "opp",
              o |-> [pair_name |-> pair_name,
                     direction |-> direction,
                     buy_dex |-> buy_option.dex,
                     buy_price |-> buy_option.price,
                     sell_dex |-> sell_option.dex,
                     sell_price |-> sell_option.price,
                     gross_diff_pct |-> profit_percentage,
                     effective_volume |-> effective_volume,
                     gross_profit_usd |-> gross_profit_usd,
                     gas_cost_usd |-> gas_cost_usd,
                     net_profit_usd |-> net_profit_usd,
                     buy_dex_volume_usd |-> buy_option.volume_24h,
                     sell_dex_volume_usd |-> sell_option.volume_24h,
                     dominant_is_buy_side |-> dominant_is_buy_side,
                     dominant_volume_ratio |-> dominant_volume_ratio,
                     price_impact_pct |-> price_impact_pct,
                     is_early_momentum |-> opportunity_is_early,
                     \* not fields of ArbitrageOpportunity: the two quotes compared
                     leg_a |-> dex_a,
                     leg_b |-> dex_b]]

\* the venue combinations in the order the nested loops visit them
Combos(n) ==
    LET RECURSIVE Row(_, _)
        Row(i, j) == IF i >= n THEN <<>>
                     ELSE IF j > n THEN Row(i + 1, i + 2)
                     ELSE <<<<i, j>>>> \o Row(i, j + 1)
    IN  Row(1, 2)
Work(pbp) ==
    LET RECURSIVE Groups(_)
        Groups(g) ==
            IF g > Len(PairNames) THEN <<>>
            ELSE [k \in 1..Len(Combos(Len(pbp[PairNames[g]]))) |->
                    <<PairNames[g]>> \o Combos(Len(pbp[PairNames[g]]))[k]]
                 \o Groups(g + 1)
    IN  Groups(1)

(***************************************************************************)
(* find_opportunities as a state machine                                   *)
(***************************************************************************)
AInit ==
    /\ cfg \in Configs
    /\ chain_name \in Chains
    /\ gas_price_gwei = F(10)
    /\ scanned = 0
    /\ prices_by_pair = [n \in {PairNames[g] : g \in 1..Len(PairNames)} |-> <<>>]
    /\ pos = 1
    /\ opportunities = <<>>
    /\ apc = "scan"
    /\ raised = "none"
    /\ impact_drops = 0

\* find_opportunities is not running
AIdle ==
    /\ cfg = Config(0, 0, 0, 1, 0)
    /\ chain_name = "base"
    /\ gas_price_gwei = F(10)
    /\ scanned = 0
    /\ prices_by_pair = [n \in {PairNames[g] : g \in 1..Len(PairNames)} |-> <<>>]
    /\ pos = 1
    /\ opportunities = <<>>
    /\ apc = "returned"
    /\ raised = "none"
    /\ impact_drops = 0

\* `if not pairs_data or 'pairs' not in pairs_data or not pairs_data['pairs']: return []`
EarlyReturn ==
    /\ apc = "scan" /\ scanned = 0
    /\ apc' = "returned"
    /\ UNCHANGED <<cfg, chain_name, gas_price_gwei, scanned, prices_by_pair, pos,
                   opportunities, raised, impact_drops>>
    /\ UNCHANGED <<vvars, mvars, svars>>

\* one iteration of `for pair in pairs_data['pairs']`
ScanPair ==
    /\ apc = "scan" /\ scanned < MaxPairs
    /\ \E pair \in RawPairs :
         LET r == ScanRecord(cfg, chain_name, pair)
         IN  /\ scanned' = scanned + 1
             /\ CASE r.kind = "raise" ->
                       /\ apc' = "raised" /\ raised' = r.exc
                       /\ UNCHANGED prices_by_pair
                  [] r.kind = "skip" ->
                       UNCHANGED <<apc, raised, prices_by_pair>>
                  [] OTHER ->
                       /\ prices_by_pair' =
                            [prices_by_pair EXCEPT ![r.name] = Append(@, r.q)]
                       /\ UNCHANGED <<apc, raised>>
    /\ UNCHANGED <<cfg, chain_name, gas_price_gwei, pos, opportunities, impact_drops>>
    /\ UNCHANGED <<vvars, mvars, svars>>

\* the first loop is exhausted
EndScan ==
    /\ apc = "scan" /\ scanned >= 1
    /\ apc' = "compare"
    /\ UNCHANGED <<cfg, chain_name, gas_price_gwei, scanned, prices_by_pair, pos,
                   opportunities, raised, impact_drops>>
    /\ UNCHANGED <<vvars, mvars, svars>>

\* one iteration of the innermost loop `for j in range(i + 1, len(prices))`
ComparePair ==
    /\ apc = "compare" /\ pos <= Len(Work(prices_by_pair))
    /\ LET w == Work(prices_by_pair)[pos]
           prices == prices_by_pair[w[1]]
           r == CompareVenues(cfg, chain_name, gas_price_gwei, w[1],
                              prices[w[2]], prices[w[3]])
       IN  /\ pos' = pos + 1
           /\ impact_drops' = IF r = ImpactSkip THEN impact_drops + 1 ELSE impact_drops
           /\ CASE r.kind = "raise" ->
                     /\ apc' = "raised" /\ raised' = r.exc
                     /\ UNCHANGED opportunities
                [] r.kind = "skip" -> UNCHANGED <<apc, raised, opportunities>>
                [] OTHER ->
                     /\ opportunities' = Append(opportunities, r.o)
                     /\ UNCHANGED <<apc, raised>>
    /\ UNCHANGED <<cfg, chain_name, gas_price_gwei, scanned, prices_by_pair>>
    /\ UNCHANGED <<vvars, mvars, svars>>

\* `return opportunities`
Return ==
    /\ apc = "compare" /\ pos > Len(Work(prices_by_pair))
    /\ apc' = "returned"
    /\ UNCHANGED <<cfg, chain_name, gas_price_gwei, scanned, prices_by_pair, pos,
                   opportunities, raised, impact_drops>>
    /\ UNCHANGED <<vvars, mvars, svars>>


Returned == apc = "returned"
Opp(k) == opportunities[k]
OppIdx == 1..Len(opportunities)


(***************************************************************************)
(* Claims about find_opportunities                                         *)
(***************************************************************************)
\* the quote an emitted opportunity bought from / sold to
BuyLeg(o) == IF o.leg_a.dex = o.buy_dex THEN o.leg_a ELSE o.leg_b
SellLeg(o) == IF o.leg_a.dex = o.sell_dex THEN o.leg_a ELSE o.leg_b

\* C1: every ArbitrageOpportunity built by find_opportunities has
\* sell_price > buy_price strictly and net_profit_usd > 0.
C1_SellAboveBuyAndNetPositive ==
    \A k \in OppIdx :
        /\ FGt(Opp(k).sell_price, Opp(k).buy_price)
        /\ FGt(Opp(k).net_profit_usd, F(0))

\* C2: the buy venue is the lower-priced and the sell venue the higher-priced of
\* the two compared venues; the dominant venue is the one with strictly greater
\* 24h volume, or the lower-priced one when the volumes are equal; direction is
\* BULLISH exactly when the dominant venue is the buy venue, BEARISH otherwise,
\* and dominant_is_buy_side is true exactly when direction is BULLISH.
C2_BuyLowSellHighAndDirection ==
    \A k \in OppIdx :
        LET o == Opp(k)
            a == o.leg_a
            b == o.leg_b
            buy_is_a == o.buy_dex = a.dex
            buy == IF buy_is_a THEN a ELSE b
            sell == IF buy_is_a THEN b ELSE a
            dominant_is_buy ==
                \/ buy.volume_24h > sell.volume_24h
                \/ buy.volume_24h = sell.volume_24h
        IN  /\ {o.buy_dex, o.sell_dex} = {a.dex, b.dex}
            /\ o.buy_price = buy.price /\ o.sell_price = sell.price
            /\ FLt(buy.price, sell.price)
            /\ o.direction \in {"BULLISH", "BEARISH"}
            /\ (o.direction = "BULLISH") = dominant_is_buy
            /\ o.dominant_is_buy_side = (o.direction = "BULLISH")

\* C3: every BEARISH opportunity has gross_diff_pct >= min_bearish_discrepancy
\* and dominant_volume_ratio >= 1.2; every BULLISH opportunity has
\* gross_diff_pct >= min_bullish_profit.
C3_DirectionThresholds ==
    \A k \in OppIdx :
        LET o == Opp(k)
        IN  /\ o.direction = "BEARISH" =>
                /\ FGe(o.gross_diff_pct, cfg.min_bearish_discrepancy)
                /\ FGe(o.dominant_volume_ratio, Fin(<<6, 5>>))
            /\ o.direction = "BULLISH" =>
                FGe(o.gross_diff_pct, cfg.min_bullish_profit)

\* the smallest of a non-empty set of finite amounts
LeastOf(S) == CHOOSE x \in S : \A y \in S : RLe(x.v, y.v)
Pct(n, d, amount) == Fin(RMul(<<n, d>>, R(amount)))

\* C4: effective_volume = min(trade_volume, 0.5% of buy liquidity, 0.5% of sell
\* liquidity), further capped at 0.2% of min(buy liquidity, sell liquidity) when
\* either leg is flagged early-momentum; it is at least 1 USD.
C4_EffectiveVolume ==
    \A k \in OppIdx :
        LET o == Opp(k)
            bl == BuyLeg(o).liquidity
            sl == SellLeg(o).liquidity
            early == BuyLeg(o).is_early_momentum \/ SellLeg(o).is_early_momentum
            plain == {cfg.trade_volume, Pct(5, 1000, bl), Pct(5, 1000, sl)}
            capped == plain \cup {Pct(2, 1000, bl), Pct(2, 1000, sl)}
        IN  /\ o.effective_volume = LeastOf(IF early THEN capped ELSE plain)
            /\ FGe(o.effective_volume, F(1))

\* the early-momentum cap is the binding term of an emitted opportunity
C4_Witness ==
    /\ Returned
    /\ \E k \in OppIdx :
         /\ Opp(k).is_early_momentum
         /\ Opp(k).effective_volume = F(400)
         /\ FGt(cfg.trade_volume, F(400))

\* the liquidity share is the binding term of an emitted opportunity
C4_WitnessLiquidityBound ==
    /\ Returned
    /\ \E k \in OppIdx : Opp(k).effective_volume = F(100)

\* C5: find_opportunities never raises, whatever the records hold.
C5_NeverRaises == apc # "raised"


(***************************************************************************)
(* OnChainPriceValidator                                                   *)
(***************************************************************************)
MaxCalls == 2            \* validate_pair_price calls in one run
MaxConcurrentCalls == 3  \* the same, where two tasks share the validator
MaxTime == 2             \* the clock stops advancing here
BlockCacheTtl == 1       \* block_cache_ttl, in clock ticks

Tasks == {"t1", "t2"}
SequentialTasks == {"t1"}                   \* one caller awaiting each call in turn
PairAddrs == {"0xpair"}
TokenAddrs == {"0xtgt", "0xusdc", "0xweth", "0xother"}
Blocks == {16, 17}
NoneInt == -1                               \* None where an int is expected
NoneF == [k |-> "none", v |-> R(0)]         \* None where a float is expected

\* _normalise_address: lower-case, 0x-prefixed; None and "" are returned as is
_normalise_address(address) ==
    CASE address = "none" -> "none"
      [] address \in {"0xTGT", "TGT", "0xtgt"} -> "0xtgt"
      [] address \in {"0xPAIR", "0xpair"} -> "0xpair"
      [] address \in {"0xWETH", "0xweth"} -> "0xweth"
      [] OTHER -> address
\* str.lower()
Lower(address) ==
    CASE address = "0xTGT" -> "0xtgt"
      [] address = "0xPAIR" -> "0xpair"
      [] address = "0xWETH" -> "0xweth"
      [] OTHER -> address

\* constants.COMMON_TOKEN_ADDRESSES, the table production passes to the constructor
COMMON_TOKEN_ADDRESSES ==
    [c \in {"base"} |-> [key \in {"weth", "usdc"} |->
        IF key = "weth" THEN "0xWETH" ELSE "0xusdc"]]
\* self._common_token_addresses.get(chain_name, {}).get(key)
ChainToken(chain, key) ==
    IF chain \in DOMAIN COMMON_TOKEN_ADDRESSES
       /\ key \in DOMAIN COMMON_TOKEN_ADDRESSES[chain]
    THEN COMMON_TOKEN_ADDRESSES[chain][key]
    ELSE "none"

MaxPctDiff == F(5)       \* max_pct_diff given to the constructor

Args(chain, pair, target, counter, dex, native) ==
    [chain_name |-> chain, pair_address |-> pair, target_token_address |-> target,
     counter_token_address |-> counter, dex_price_usd |-> dex,
     native_price_usd |-> native]
ArgSets ==
    { Args(ch, "0xPAIR", "TGT", ct, dx, nt) :
        ch \in {"base"}, ct \in {"none", "0xWETH"},
        dx \in {F(0), F(1400), F(1500)}, nt \in {NoneF, F(2000)} }
    \cup { Args("solana", "0xPAIR", "TGT", "none", F(1500), F(2000)),
           Args("base", "none", "TGT", "none", F(1500), F(2000)),
           Args("base", "0xPAIR", "none", "none", F(1500), F(2000)) }

Result(validated, passed, price_usd, diff_pct, block_number, error) ==
    [validated |-> validated, passed |-> passed, price_usd |-> price_usd,
     diff_pct |-> diff_pct, block_number |-> block_number, error |-> error]
NoResult == Result(FALSE, FALSE, NoneF, NoneF, NoneInt, "no_result")

\* history: the arguments and result of a validated call and the time of its own
\* eth_blockNumber fetch (NoneInt: it found the block number cached)
Validated(args, result, fetched_at) ==
    [args |-> args, result |-> result, fetched_at |-> fetched_at]
NoValidated == Validated(Args("base", "none", "none", "none", F(0), NoneF), NoResult, NoneInt)
\* history: what a call found when it started: the last validated call, and
\* whether the block cache still held the entry that call's fetch had written
NoPrior == [rec |-> NoValidated, intact |-> FALSE]

Unset(v) == [set |-> FALSE, v |-> v]     \* an absent cache entry
Cached(v) == [set |-> TRUE, v |-> v]

\* a call: where it is suspended and its local variables; five history fields:
\* sent, the requests the call has issued so far (named by the await they
\* suspend at), failed, the request whose helper raised, prior,
\* pair_other, the value line 123 gives counter_token before the override, and
\* tokens_at_start, the token cache entry of the call's pair when it started
IdleCall ==
    [pc |-> "idle", args |-> Args("base", "none", "none", "none", F(0), NoneF),
     pair_address |-> "none", target_token_address |-> "none",
     now0 |-> 0, block_number |-> NoneInt, token0 |-> "none",
     target_is_token0 |-> FALSE, counter_token |-> "none",
     reserve_target |-> 0, reserve_counter |-> 0, target_decimals |-> 0,
     counter_decimals |-> 0, price_in_counter |-> NoneF, result |-> NoResult, exc |-> "none",
     sent |-> <<>>, failed |-> "none", prior |-> NoPrior, pair_other |-> "none",
     tokens_at_start |-> Unset(<<"none", "none">>)]

\* what one uninterrupted run of the coroutine ends in: the call as it is then,
\* and the JSON-RPC request it sent and now awaits ("none": it returned or raised)
Finish(c, res) == [call |-> [c EXCEPT !.pc = "done", !.result = res], send |-> "none"]
Fail_NoCode(c, error) ==
    Finish(c, Result(FALSE, FALSE, NoneF, NoneF, c.block_number, "none"))
Fail(c, error) ==
    Finish(c, Result(FALSE, FALSE, NoneF, NoneF, c.block_number, error))
Await(c, pc, method) ==
    [call |-> [c EXCEPT !.pc = pc, !.sent = Append(c.sent, pc)], send |-> method]
\* the except clause of the helper that raised: the call returns the step's code
Raised_Retry(c, error) == Await(c, c.pc, "retry")
Raised(c, error) == Fail([c EXCEPT !.failed = c.pc], error)
Throw(c, e) == [call |-> [c EXCEPT !.pc = "raised", !.exc = e], send |-> "none"]

_counter_to_usd_IgnoreNative(chain, counter_token_address, price_in_counter, native_price_usd) ==
    LET counter_lower == Lower(counter_token_address)
        matches(key) == ChainToken(chain, key) # "none"
                        /\ counter_lower = Lower(ChainToken(chain, key))
    IN  IF \E key \in {"usdc", "usdt", "dai"} : matches(key) THEN price_in_counter
        ELSE IF \E key \in {"weth", "wmatic", "wbnb"} : matches(key)
        THEN price_in_counter
        ELSE NoneF
_counter_to_usd(chain, counter_token_address, price_in_counter, native_price_usd) ==
    LET counter_lower == Lower(counter_token_address)
        matches(key) == ChainToken(chain, key) # "none"
                        /\ counter_lower = Lower(ChainToken(chain, key))
    IN  IF \E key \in {"usdc", "usdt", "dai"} : matches(key) THEN price_in_counter
        ELSE IF native_price_usd # NoneF
                /\ \E key \in {"weth", "wmatic", "wbnb"} : matches(key)
        THEN FMul(price_in_counter, native_price_usd)
        ELSE NoneF

RECURSIVE IntPow10(_)
IntPow10(d) == IF d = 0 THEN 1 ELSE 10 * IntPow10(d - 1)
MinFloatExp10 == -323    \* 10 ** d underflows to 0.0 below this exponent
\* 10 ** decimals: an int for decimals >= 0, a float otherwise
Pow10(d) ==
    IF d >= 0 THEN R(IntPow10(d))
    ELSE IF d < MinFloatExp10 THEN R(0)
    ELSE <<1, IntPow10(-d)>>

\* lines 198-211: the comparison with the quoted price
Compare_StrictTolerance(c, usd_price) ==
    LET dex_price_usd == c.args.dex_price_usd
        compared == FGt(dex_price_usd, F(0))
        diff_pct == IF compared
                    THEN FMul(FDiv(Fin(<<Abs(FSub(usd_price, dex_price_usd).v[1]),
                                         FSub(usd_price, dex_price_usd).v[2]>>),
                                   dex_price_usd), F(100))
                    ELSE NoneF
        passed == compared /\ FLt(diff_pct, MaxPctDiff)
    IN  Finish(c, Result(TRUE, passed, usd_price, diff_pct, c.block_number,
                         IF passed THEN "none"
                         ELSE IF diff_pct # NoneF THEN "price_mismatch" ELSE "none"))
Compare(c, usd_price) ==
    LET dex_price_usd == c.args.dex_price_usd
        compared == FGt(dex_price_usd, F(0))
        diff_pct == IF compared
                    THEN FMul(FDiv(Fin(<<Abs(FSub(usd_price, dex_price_usd).v[1]),
                                         FSub(usd_price, dex_price_usd).v[2]>>),
                                   dex_price_usd), F(100))
                    ELSE NoneF
        passed == compared /\ FLe(diff_pct, MaxPctDiff)
    IN  Finish(c, Result(TRUE, passed, usd_price, diff_pct, c.block_number,
                         IF passed THEN "none"
                         ELSE IF diff_pct # NoneF THEN "price_mismatch" ELSE "none"))

\* lines 169-196: from both decimals to the USD price
Compute(c0, target_decimals, counter_decimals) ==
    LET c == [c0 EXCEPT !.target_decimals = target_decimals,
                        !.counter_decimals = counter_decimals]
    IN
    IF Pow10(target_decimals) = R(0) \/ Pow10(counter_decimals) = R(0)
    THEN Throw(c, "ZeroDivisionError")
    ELSE
    LET reserve_target_float == Fin(RDiv(R(c.reserve_target), Pow10(target_decimals)))
        reserve_counter_float == Fin(RDiv(R(c.reserve_counter), Pow10(counter_decimals)))
        price_in_counter == FDiv(reserve_counter_float, reserve_target_float)
        usd_price == _counter_to_usd(c.args.chain_name, c.counter_token,
                                     price_in_counter, c.args.native_price_usd)
        c1 == [c EXCEPT !.price_in_counter = price_in_counter]
    IN  IF FLe(reserve_target_float, F(0)) THEN Fail(c, "invalid_reserve_ratio")
        ELSE IF usd_price = NoneF THEN Fail(c1, "unsupported_quote_token")
        ELSE Compare(c1, usd_price)


\* _get_decimals(counter_token)
AtDecCounter(c, target_decimals, dc) ==
    LET token_address == _normalise_address(c.counter_token)
    IN  IF dc[token_address].set
        THEN Compute(c, target_decimals, dc[token_address].v)
        ELSE Await([c EXCEPT !.target_decimals = target_decimals],
                   "wait_dec_counter", "decimals")

\* _get_decimals(target_token_address)
AtDecTarget(c, dc) ==
    LET token_address == _normalise_address(c.target_token_address)
    IN  IF dc[token_address].set
        THEN AtDecCounter(c, dc[token_address].v, dc)
        ELSE Await(c, "wait_dec_target", "decimals")

\* lines 143-154
AfterReserves(c, reserves, dc) ==
    LET reserve_target == IF c.target_is_token0 THEN reserves[1] ELSE reserves[2]
        reserve_counter == IF c.target_is_token0 THEN reserves[2] ELSE reserves[1]
    IN  IF reserve_target = 0 \/ reserve_counter = 0 THEN Fail(c, "empty_reserves")
        ELSE AtDecTarget([c EXCEPT !.reserve_target = reserve_target,
                                   !.reserve_counter = reserve_counter], dc)

\* _get_reserves(pair_address, block_number)
AtReserves(c, rc, dc) ==
    LET cached == rc[<<c.pair_address, c.block_number>>]
    IN  IF cached.set THEN AfterReserves(c, cached.v, dc)
        ELSE Await(c, "wait_reserves", "getReserves")

\* lines 123-129: the counter token is the pair's other token unless the caller
\* names a different one
CounterToken(target_is_token0, token0, token1, counter_token_address) ==
    LET counter_token == IF target_is_token0 THEN token1 ELSE token0
    IN  IF counter_token_address # "none"
           /\ _normalise_address(counter_token_address) # counter_token
        THEN _normalise_address(counter_token_address)
        ELSE counter_token

\* lines 98-129
AfterTokens(c, token0, token1, rc, dc) ==
    IF token0 = "none" \/ token1 = "none" THEN Fail(c, "token_resolution_missing")
    ELSE IF c.target_token_address # token0 /\ c.target_token_address # token1
    THEN Fail(c, "target_not_in_pair")
    ELSE
    LET target_is_token0 == c.target_token_address = token0
    IN  AtReserves([c EXCEPT !.target_is_token0 = target_is_token0,
                             !.pair_other = IF target_is_token0 THEN token1 ELSE token0,
                             !.counter_token =
                                CounterToken(target_is_token0, token0, token1,
                                             c.args.counter_token_address)],
                   rc, dc)

\* _get_pair_tokens(pair_address)
AtTokens_NoCache(c, tc, rc, dc) == Await(c, "wait_token0", "token0")
AtTokens(c, tc, rc, dc) ==
    IF tc[c.pair_address].set
    THEN AfterTokens(c, tc[c.pair_address].v[1], tc[c.pair_address].v[2], rc, dc)
    ELSE Await(c, "wait_token0", "token0")

\* _get_latest_block_number()
AtBlock_StrictTtl(c, t, bc, tc, rc, dc) ==
    IF bc.set /\ t - bc.v[2] < BlockCacheTtl
    THEN AtTokens([c EXCEPT !.now0 = t, !.block_number = bc.v[1]], tc, rc, dc)
    ELSE Await([c EXCEPT !.now0 = t], "wait_block", "eth_blockNumber")
AtBlock(c, t, bc, tc, rc, dc) ==
    IF bc.set /\ t - bc.v[2] <= BlockCacheTtl
    THEN AtTokens([c EXCEPT !.now0 = t, !.block_number = bc.v[1]], tc, rc, dc)
    ELSE Await([c EXCEPT !.now0 = t], "wait_block", "eth_blockNumber")

\* lines 61-72
Begin(args, t, bc, tc, rc, dc) ==
    LET c == [IdleCall EXCEPT !.args = args]
    IN  IF args.pair_address = "none" \/ args.target_token_address = "none"
        THEN Fail(c, "missing_pair_metadata")
        ELSE AtBlock([c EXCEPT
                        !.pair_address = _normalise_address(args.pair_address),
                        !.target_token_address =
                            _normalise_address(args.target_token_address)],
                     t, bc, tc, rc, dc)


\* what the JSON-RPC endpoint can answer
\* transport error, timeout or 'error' in data ("rpc_error"); "result": null
\* ("null"); a result the decoder cannot read ("malformed"); a result it can
Ok(v) == [kind |-> "ok", v |-> v]
Outcomes(results, blank) ==
    {[kind |-> k, v |-> blank] : k \in {"rpc_error", "null", "malformed"}}
    \cup {Ok(v) : v \in results}
BlockOutcomes == Outcomes(Blocks, 0)
TokenOutcomes == Outcomes(TokenAddrs, "none")
ReserveOutcomes == Outcomes({<<20, 31500>>, <<20, 0>>}, <<0, 0>>)
DecimalsOutcomes == Outcomes({0, 1, -400}, 0)

\* _decode_address: None for a null or short value
_decode_address(o) == IF o.kind = "ok" THEN o.v ELSE "none"

VInit ==
    /\ block_cache = Unset(<<0, 0>>)
    /\ token_cache = [p \in PairAddrs |-> Unset(<<"none", "none">>)]
    /\ reserve_cache = [k \in PairAddrs \X Blocks |-> Unset(<<0, 0>>)]
    /\ decimals_cache = [a \in TokenAddrs |-> Unset(0)]
    /\ next_request_id = 1
    /\ now = 0
    /\ calls_started = 0
    /\ calls = [t \in Tasks |-> IdleCall]
    /\ requests = <<>>
    /\ last_validated = NoValidated
VIdle ==
    /\ block_cache = Unset(<<0, 0>>)
    /\ token_cache = [p \in PairAddrs |-> Unset(<<"none", "none">>)]
    /\ reserve_cache = [k \in PairAddrs \X Blocks |-> Unset(<<0, 0>>)]
    /\ decimals_cache = [a \in TokenAddrs |-> Unset(0)]
    /\ next_request_id = 1
    /\ now = 0
    /\ calls_started = MaxCalls
    /\ calls = [t \in Tasks |-> IdleCall]
    /\ requests = <<>>
    /\ last_validated = NoValidated

\* the coroutine of task t ran up to `step`; _rpc_call took a request id if it
\* sent a request
\* _get_request_id: no await between taking and releasing the uncontended lock
_get_request_id_NoIncrement(id) == [request_id |-> id, next |-> id]
_get_request_id(id) == [request_id |-> id, next |-> id + 1]
Proceed(t, step) ==
    /\ calls' = [calls EXCEPT ![t] = step.call]
    /\ last_validated' =
          IF step.call.pc = "done" /\ step.call.result.validated
          THEN Validated(step.call.args, step.call.result,
                         IF "wait_block" \in {step.call.sent[i] : i \in 1..Len(step.call.sent)}
                         THEN step.call.now0 ELSE NoneInt)
          ELSE last_validated
    /\ IF step.send = "none"
       THEN UNCHANGED <<next_request_id, requests>>
       ELSE LET got == _get_request_id(next_request_id)
            IN  /\ next_request_id' = got.next
                /\ requests' = Append(requests, got.request_id)

\* a task calls validate_pair_price; it runs to its first await or to its return
CallStartFrom(t, arg_sets, max_calls) ==
    /\ calls[t].pc \in {"idle", "done", "raised"}
    /\ calls_started < max_calls
    /\ \E args \in arg_sets, dt \in 0..(MaxTime - now) :
          /\ now' = now + dt
          /\ LET step == Begin(args, now + dt, block_cache, token_cache,
                                reserve_cache, decimals_cache)
                 prior == [rec |-> last_validated,
                           intact |-> block_cache =
                               Cached(<<last_validated.result.block_number,
                                        last_validated.fetched_at>>)]
                 pair == _normalise_address(args.pair_address)
                 tokens == IF pair \in PairAddrs THEN token_cache[pair]
                           ELSE Unset(<<"none", "none">>)
             IN  Proceed(t, [step EXCEPT !.call.prior = prior,
                                         !.call.tokens_at_start = tokens])
    /\ calls_started' = calls_started + 1
    /\ UNCHANGED <<block_cache, token_cache, reserve_cache, decimals_cache>>
    /\ UNCHANGED <<avars, mvars, svars>>

CallStart(t) == CallStartFrom(t, ArgSets, MaxCalls)

\* the answer to eth_blockNumber arrives (lines 217-220, then 76-84 or 86 on)
RecvBlockFrom(t, outcomes) ==
    /\ calls[t].pc = "wait_block"
    /\ \E o \in outcomes :
          IF o.kind = "ok"
          THEN /\ block_cache' = Cached(<<o.v, calls[t].now0>>)
               /\ Proceed(t, AtTokens([calls[t] EXCEPT !.block_number = o.v],
                                      token_cache, reserve_cache, decimals_cache))
          ELSE /\ block_cache' = block_cache
               /\ Proceed(t, Raised(calls[t], "block_number_error"))
    /\ UNCHANGED <<token_cache, reserve_cache, decimals_cache, now, calls_started>>
    /\ UNCHANGED <<avars, mvars, svars>>
RecvBlock(t) == RecvBlockFrom(t, BlockOutcomes)

\* the answer to token0() arrives (line 227); token1() is requested (line 228)
RecvToken0From(t, outcomes) ==
    /\ calls[t].pc = "wait_token0"
    /\ \E o \in outcomes :
          IF o.kind = "rpc_error"
          THEN Proceed(t, Raised(calls[t], "token_resolution_error"))
          ELSE Proceed(t, Await([calls[t] EXCEPT !.token0 = _decode_address(o)],
                                "wait_token1", "token1"))
    /\ UNCHANGED <<block_cache, token_cache, reserve_cache, decimals_cache, now,
                   calls_started>>
    /\ UNCHANGED <<avars, mvars, svars>>
RecvToken0(t) == RecvToken0From(t, TokenOutcomes)

\* the answer to token1() arrives (lines 228-232, then 88-129)
RecvToken1From(t, outcomes) ==
    /\ calls[t].pc = "wait_token1"
    /\ \E o \in outcomes :
          IF o.kind = "rpc_error"
          THEN /\ token_cache' = token_cache
               /\ Proceed(t, Raised(calls[t], "token_resolution_error"))
          ELSE LET token0 == calls[t].token0
                   token1 == _decode_address(o)
               IN  /\ token_cache' = [token_cache EXCEPT ![calls[t].pair_address] =
                                         Cached(<<token0, token1>>)]
                   /\ Proceed(t, AfterTokens(calls[t], token0, token1,
                                             reserve_cache, decimals_cache))
    /\ UNCHANGED <<block_cache, reserve_cache, decimals_cache, now, calls_started>>
    /\ UNCHANGED <<avars, mvars, svars>>
RecvToken1(t) == RecvToken1From(t, TokenOutcomes)

\* the answer to getReserves() arrives (lines 240-248, then 133-154)
RecvReservesFrom(t, outcomes) ==
    /\ calls[t].pc = "wait_reserves"
    /\ \E o \in outcomes :
          IF o.kind = "ok"
          THEN /\ reserve_cache' =
                     [reserve_cache EXCEPT
                        ![<<calls[t].pair_address, calls[t].block_number>>] = Cached(o.v)]
               /\ Proceed(t, AfterReserves(calls[t], o.v, decimals_cache))
          ELSE /\ reserve_cache' = reserve_cache
               /\ Proceed(t, Raised(calls[t], "reserve_fetch_error"))
    /\ UNCHANGED <<block_cache, token_cache, decimals_cache, now, calls_started>>
    /\ UNCHANGED <<avars, mvars, svars>>
RecvReserves(t) == RecvReservesFrom(t, ReserveOutcomes)

\* the answer to decimals() of the target token arrives (lines 255-260, then 158)
RecvDecTargetFrom(t, outcomes) ==
    /\ calls[t].pc = "wait_dec_target"
    /\ \E o \in outcomes :
          IF o.kind = "ok"
          THEN LET dc == [decimals_cache EXCEPT
                            ![_normalise_address(calls[t].target_token_address)] =
                                Cached(o.v)]
               IN  /\ decimals_cache' = dc
                   /\ Proceed(t, AtDecCounter(calls[t], o.v, dc))
          ELSE /\ decimals_cache' = decimals_cache
               /\ Proceed(t, Raised(calls[t], "decimals_error"))
    /\ UNCHANGED <<block_cache, token_cache, reserve_cache, now, calls_started>>
    /\ UNCHANGED <<avars, mvars, svars>>
RecvDecTarget(t) == RecvDecTargetFrom(t, DecimalsOutcomes)

\* the answer to decimals() of the counter token arrives (lines 255-260, then 159 on)
RecvDecCounterFrom(t, outcomes) ==
    /\ calls[t].pc = "wait_dec_counter"
    /\ \E o \in outcomes :
          IF o.kind = "ok"
          THEN /\ decimals_cache' =
                     [decimals_cache EXCEPT
                        ![_normalise_address(calls[t].counter_token)] = Cached(o.v)]
               /\ Proceed(t, Compute(calls[t], calls[t].target_decimals, o.v))
          ELSE /\ decimals_cache' = decimals_cache
               /\ Proceed(t, Raised(calls[t], "decimals_error"))
    /\ UNCHANGED <<block_cache, token_cache, reserve_cache, now, calls_started>>
    /\ UNCHANGED <<avars, mvars, svars>>
RecvDecCounter(t) == RecvDecCounterFrom(t, DecimalsOutcomes)


(***************************************************************************)
(* Multi-leg cycle finder                                                  *)
(***************************************************************************)
MaxGraphPairs == 3       \* length of the raw pair list

Tokens == {"A", "B", "C"}
TokenUsd == [t \in Tokens |-> IF t = "A" THEN F(3) ELSE IF t = "B" THEN F(6) ELSE F(2)]

MPair(shape, base, quote, pnat, busd, qusd) ==
    [shape |-> shape, base |-> base, quote |-> quote, priceNative |-> pnat,
     base_usd |-> busd, quote_usd |-> qusd]
\* the raw pair records the list is drawn from
MPairs ==
    { MPair("ok", o[1], o[2], rate, RawMissing, RawMissing) :
        o \in {<<"A", "B">>, <<"B", "C">>, <<"C", "A">>},
        rate \in {F(2), Fin(<<1, 2>>)} }
    \cup { MPair("ok", o[1], o[2], F(2), TokenUsd[o[1]], TokenUsd[o[2]]) :
        o \in {<<"A", "B">>, <<"B", "C">>, <<"C", "A">>} }
    \cup { MPair("ok", "B", "A", F(2), RawMissing, RawMissing),
           MPair("baseToken_missing", "A", "B", F(2), RawMissing, RawMissing),
           MPair("ok", "A", "B", RawMissing, F(6), F(3)),
           MPair("ok", "A", "B", PInf, RawMissing, RawMissing),
           MPair("ok", "A", "B", F(2), NaN, F(6)),
           MPair("ok", "C", "A", F(2), F(2), F(0)) }

\* token_map argument: token address -> symbol, for the tokens it knows
FullTokenMap == [t \in Tokens |-> IF t = "A" THEN "AAA" ELSE IF t = "B" THEN "BBB" ELSE "CCC"]
PartialTokenMap == [t \in {"A"} |-> "AAA"]
\* the AppConfig fields the cycle finder reads, with the token_map argument
MConfigWith(fee, slip, len, minp, token_map) ==
    [trade_volume |-> F(100), dex_fee |-> F(fee), slippage |-> F(slip),
     max_cycle_length |-> len, min_profit |-> F(minp), token_map |-> token_map]
MConfig(fee, slip, len, minp) == MConfigWith(fee, slip, len, minp, FullTokenMap)
MConfigs == {MConfig(0, 0, 3, 0), MConfigWith(10, 20, 3, 0, PartialTokenMap),
             MConfig(10, 20, 3, 200), MConfigWith(0, 0, 2, 0, PartialTokenMap)}
GasCostUsd3 == F(5)      \* argument gas_cost_usd, the per-swap estimate

\* truthiness of a JSON value: absent (.get gives None) and null are falsy, a
\* non-empty string is truthy
Truthy(raw) == raw.k \notin {"missing", "null"}

NoEdge == [set |-> FALSE, rate |-> F(0), pair_info |-> 0]
Edge(rate, i) == [set |-> TRUE, rate |-> rate, pair_info |-> i]
EmptyGraph == [e \in Tokens \X Tokens |-> NoEdge]

\* lines 22-32: the base->quote rate, or the loop's continue
RateBaseToQuote(pair) ==
    IF Truthy(pair.priceNative)
    THEN IF FloatOk(pair.priceNative) THEN [ok |-> TRUE, rate |-> pair.priceNative]
         ELSE [ok |-> FALSE, rate |-> NaN]
    ELSE IF Truthy(pair.base_usd) /\ Truthy(pair.quote_usd)
    THEN IF FloatOk(pair.base_usd) /\ FloatOk(pair.quote_usd)
            /\ FGt(pair.base_usd, F(0)) /\ FGt(pair.quote_usd, F(0))
         THEN [ok |-> TRUE, rate |-> FDiv(pair.base_usd, pair.quote_usd)]
         ELSE [ok |-> FALSE, rate |-> NaN]
    ELSE [ok |-> FALSE, rate |-> NaN]

\* one iteration of the loop of build_graph_from_pairs; i is the pair's index.
\* For an infinite rate the forward edge is added, then math.log(1 / rate)
\* raises ValueError and the except clause skips the inverse edge.
AddPairEdges_ForwardOnly(g, pair, i) ==
    LET r == RateBaseToQuote(pair)
    IN  IF pair.shape # "ok" \/ ~r.ok \/ ~FGt(r.rate, F(0)) THEN g
        ELSE [g EXCEPT ![<<pair.base, pair.quote>>] = Edge(r.rate, i)]
AddPairEdges(g, pair, i) ==
    LET r == RateBaseToQuote(pair)
    IN  IF pair.shape # "ok" \/ ~r.ok \/ ~FGt(r.rate, F(0)) THEN g
        ELSE IF r.rate = PInf
        THEN [g EXCEPT ![<<pair.base, pair.quote>>] = Edge(r.rate, i)]
        ELSE [g EXCEPT ![<<pair.base, pair.quote>>] = Edge(r.rate, i),
                       ![<<pair.quote, pair.base>>] = Edge(FDiv(F(1), r.rate), i)]

\* one iteration of the price-map loop (lines 125-135)
RecordPrices(prices, pair) ==
    IF pair.shape # "ok" THEN prices
    ELSE
    LET p1 == IF Truthy(pair.base_usd) /\ FloatOk(pair.base_usd)
              THEN [prices EXCEPT ![pair.base] = pair.base_usd] ELSE prices
    IN  IF Truthy(pair.base_usd) /\ ~FloatOk(pair.base_usd) THEN prices
        ELSE IF Truthy(pair.quote_usd) /\ FloatOk(pair.quote_usd)
        THEN [p1 EXCEPT ![pair.quote] = pair.quote_usd]
        ELSE p1
RECURSIVE PriceMap(_, _, _)
PriceMap(prices, pairs, i) ==
    IF i > Len(pairs) THEN prices
    ELSE PriceMap(RecordPrices(prices, pairs[i]), pairs, i + 1)

\* nx.simple_cycles(graph, length_bound): every simple directed cycle of at
\* most length_bound nodes, once; which node it lists first is the library's
\* choice.  Listed here from the least token; the graph has no self-loops.
CycleEdges(cycle) ==
    {<<cycle[i], cycle[(i % Len(cycle)) + 1]>> : i \in 1..Len(cycle)}
SimpleCycles(g, length_bound) ==
    { c \in {<<"A", "B">>, <<"A", "C">>, <<"B", "C">>,
             <<"A", "B", "C">>, <<"A", "C", "B">>} :
        /\ Len(c) <= length_bound
        /\ \A e \in CycleEdges(c) : g[e].set }
Rotations(c) ==
    { [i \in 1..Len(c) |-> c[((i + k - 1) % Len(c)) + 1]] : k \in 0..(Len(c) - 1) }

\* lines 145-148: the sum of -ln(rate) is negative iff the product of the
\* rates exceeds 1
RECURSIVE RateProduct(_, _, _)
RateProduct(g, cycle, i) ==
    IF i > Len(cycle) THEN F(1)
    ELSE FMul(g[<<cycle[i], cycle[(i % Len(cycle)) + 1]>>].rate,
              RateProduct(g, cycle, i + 1))
PathWeightNegative(g, cycle) == FGt(RateProduct(g, cycle, 1), F(1))

\* lines 79-89: the quantity after legs i..n
RECURSIVE WalkCycle_NoSlippage(_, _, _, _, _)
WalkCycle_NoSlippage(qty, g, config, cycle, i) ==
    IF i > Len(cycle) THEN qty
    ELSE LET rate == g[<<cycle[i], cycle[(i % Len(cycle)) + 1]>>].rate
             q1 == FMul(qty, rate)
             q2 == FMul(q1, FSub(F(1), FDiv(config.dex_fee, F(100))))
         IN  WalkCycle_NoSlippage(q2, g, config, cycle, i + 1)
\* the same walk without the leg that closes the cycle
RECURSIVE WalkCycle_Open(_, _, _, _, _)
WalkCycle_Open(qty, g, config, cycle, i) ==
    IF i >= Len(cycle) THEN qty
    ELSE LET rate == g[<<cycle[i], cycle[(i % Len(cycle)) + 1]>>].rate
             q1 == FMul(qty, rate)
             q2 == FMul(q1, FSub(F(1), FDiv(config.dex_fee, F(100))))
             q3 == FMul(q2, FSub(F(1), FDiv(config.slippage, F(100))))
         IN  WalkCycle_Open(q3, g, config, cycle, i + 1)
RECURSIVE WalkCycle(_, _, _, _, _)
WalkCycle(qty, g, config, cycle, i) ==
    IF i > Len(cycle) THEN qty
    ELSE LET rate == g[<<cycle[i], cycle[(i % Len(cycle)) + 1]>>].rate
             q1 == FMul(qty, rate)
             q2 == FMul(q1, FSub(F(1), FDiv(config.dex_fee, F(100))))
             q3 == FMul(q2, FSub(F(1), FDiv(config.slippage, F(100))))
         IN  WalkCycle(q3, g, config, cycle, i + 1)

NoOpp == [kind |-> "none"]
\* addr[:6]: the model's token addresses are shorter than six characters
Trunc6(addr) == addr
\* token_map.get(addr, addr[:6])
SymbolOf(token_map, addr) ==
    IF addr \in DOMAIN token_map THEN token_map[addr] ELSE Trunc6(addr)
\* line 96: the symbols of the cycle, then the first symbol again
CyclePathSymbols_Open(token_map, cycle) ==
    [i \in 1..Len(cycle) |-> SymbolOf(token_map, cycle[i])]
CyclePathSymbols(token_map, cycle) ==
    Append([i \in 1..Len(cycle) |-> SymbolOf(token_map, cycle[i])],
           SymbolOf(token_map, cycle[1]))
calculate_cycle_profitability(cycle, g, config, gas_cost_usd, prices) ==
    LET num_swaps == Len(cycle)
        start_token_price_usd == prices[cycle[1]]
    IN  IF start_token_price_usd = NoneF \/ FEq(start_token_price_usd, F(0))
           \/ FLe(start_token_price_usd, F(0))
        THEN NoOpp
        ELSE
        LET initial_token_quantity == FDiv(config.trade_volume, start_token_price_usd)
            current_token_quantity ==
                WalkCycle(initial_token_quantity, g, config, cycle, 1)
            final_amount_usd == FMul(current_token_quantity, start_token_price_usd)
            gross_profit_usd == FSub(final_amount_usd, config.trade_volume)
            total_gas_cost == FMul(gas_cost_usd, F(num_swaps))
            net_profit_usd == FSub(gross_profit_usd, total_gas_cost)
        IN  IF FGt(net_profit_usd, config.min_profit)
            THEN [kind |-> "opp", cycle |-> cycle,
                  cycle_path |-> CyclePathSymbols(config.token_map, cycle),
                  gross_profit_usd |-> gross_profit_usd,
                  net_profit_usd |-> net_profit_usd,
                  trade_volume_usd |-> config.trade_volume,
                  gas_cost_usd |-> total_gas_cost, num_swaps |-> num_swaps]
            ELSE NoOpp


MInit ==
    /\ mcfg \in MConfigs
    /\ m_pairs = <<>>
    /\ graph = EmptyGraph
    /\ token_prices_usd = [t \in Tokens |-> NoneF]
    /\ m_cycles = {}
    /\ m_opps = <<>>
    /\ mpc = "build"
MIdle ==
    /\ mcfg = MConfig(0, 0, 3, 0)
    /\ m_pairs = <<>>
    /\ graph = EmptyGraph
    /\ token_prices_usd = [t \in Tokens |-> NoneF]
    /\ m_cycles = {}
    /\ m_opps = <<>>
    /\ mpc = "returned"

\* build_graph_from_pairs visits the next pair of pairs_data
BuildStep ==
    /\ mpc = "build"
    /\ Len(m_pairs) < MaxGraphPairs
    /\ \E pair \in MPairs :
          /\ m_pairs' = Append(m_pairs, pair)
          /\ graph' = AddPairEdges(graph, pair, Len(m_pairs) + 1)
    /\ UNCHANGED <<mcfg, token_prices_usd, m_cycles, m_opps, mpc>>
    /\ UNCHANGED <<avars, vvars, svars>>

\* build_graph_from_pairs returns the graph
EndBuild ==
    /\ mpc = "build"
    /\ mpc' = "find"
    /\ UNCHANGED <<mcfg, m_pairs, graph, token_prices_usd, m_cycles, m_opps>>
    /\ UNCHANGED <<avars, vvars, svars>>

\* find_multi_leg_opportunities up to the list of cycles (lines 121-138)
FindCycles ==
    /\ mpc = "find"
    /\ token_prices_usd' = PriceMap(token_prices_usd, m_pairs, 1)
    /\ m_cycles' = SimpleCycles(graph, mcfg.max_cycle_length)
    /\ mpc' = "cycles"
    /\ UNCHANGED <<mcfg, m_pairs, graph, m_opps>>
    /\ UNCHANGED <<avars, vvars, svars>>

\* one iteration of the loop over cycles (lines 140-151)
CycleStep ==
    /\ mpc = "cycles"
    /\ \E c \in m_cycles : \E cycle \in Rotations(c) :
          /\ m_cycles' = m_cycles \ {c}
          /\ m_opps' =
               IF Len(cycle) < 3 \/ ~PathWeightNegative(graph, cycle) THEN m_opps
               ELSE LET opportunity ==
                            calculate_cycle_profitability(cycle, graph, mcfg,
                                                          GasCostUsd3, token_prices_usd)
                    IN  IF opportunity.kind = "opp" THEN Append(m_opps, opportunity)
                        ELSE m_opps
    /\ UNCHANGED <<mcfg, m_pairs, graph, token_prices_usd, mpc>>
    /\ UNCHANGED <<avars, vvars, svars>>

\* find_multi_leg_opportunities returns
MReturn ==
    /\ mpc = "cycles"
    /\ m_cycles = {}
    /\ mpc' = "returned"
    /\ UNCHANGED <<mcfg, m_pairs, graph, token_prices_usd, m_cycles, m_opps>>
    /\ UNCHANGED <<avars, vvars, svars>>

(***************************************************************************)
(* Momentum scorer (momentum_indicator.calculate_momentum_score)           *)
(***************************************************************************)
\* Python's max(a, b): keeps the first argument unless the second is
\* strictly greater
PyMax2(x, y) == IF FGt(y, x) THEN y ELSE x
Milli(n) == Fin(Norm(n, 1000))

VolumeDivergences ==
    {NInf, F(-1), F(0), Fin(<<1, 100>>), Fin(<<1, 2>>), F(1), F(5), F(20), F(50), F(100),
     PInf, NaN}
PersistenceCounts == {-1, 0, 1, 2, 3, 6, 12, 13}
RsiValues ==
    {F(-10), F(0), F(25), Fin(<<85, 2>>), F(45), F(50), Fin(<<115, 2>>), F(75),
     F(100), F(110), PInf, NaN}
ScoreArgs(v, p, r, d) ==
    [volume_divergence |-> v, persistence_count |-> p, rsi_value |-> r,
     dominant_dex_has_lower_price |-> d]
ScoreArgSets ==
    {ScoreArgs(v, p, r, d) : v \in VolumeDivergences, p \in PersistenceCounts,
                             r \in RsiValues, d \in BOOLEAN}

\* math.log1p(capped_volume) / math.log1p(50.0) * 4.0, in thousandths, rounded
Log1pShareMilli(capped_volume) ==
    CASE capped_volume = Fin(<<1, 100>>) -> 10
      [] capped_volume = Fin(<<1, 2>>) -> 412
      [] capped_volume = F(1) -> 705
      [] capped_volume = F(5) -> 1823
      [] capped_volume = F(20) -> 3097
      [] capped_volume = F(50) -> 4000
\* (1 - math.exp(-clamped_persistence / 2)) * 3.0, in thousandths, rounded
ExpRampMilli(clamped_persistence) ==
    <<0, 1180, 1896, 2331, 2594, 2754, 2851, 2909, 2945, 2967, 2980, 2988,
      2993>>[clamped_persistence + 1]

\* lines 86-91
VolumeComponent_NonFiniteIsZero(volume_divergence) ==
    IF ~IsFin(volume_divergence) \/ FLe(volume_divergence, F(0)) THEN F(0)
    ELSE Milli(Log1pShareMilli(PyMin2(volume_divergence, F(50))))
VolumeComponent(volume_divergence) ==
    IF ~IsFin(volume_divergence) \/ FLe(volume_divergence, F(0)) THEN F(4)
    ELSE Milli(Log1pShareMilli(PyMin2(volume_divergence, F(50))))

IntMin(a, b) == IF b < a THEN b ELSE a
IntMax(a, b) == IF b > a THEN b ELSE a
\* lines 94-95
PersistenceComponent_ResetAboveCap(persistence_count) ==
    Milli(ExpRampMilli(IF persistence_count > 12 THEN 0 ELSE IntMax(0, persistence_count)))
PersistenceComponent(persistence_count) ==
    Milli(ExpRampMilli(IntMax(0, IntMin(persistence_count, 12))))

NeutralBand == Fin(<<15, 100>>)
FAbs(x) == IF FLt(x, F(0)) THEN FNeg(x) ELSE x
\* lines 101-111
RsiComponent(rsi_value, direction_is_upward) ==
    LET rsi_clamped == PyMax2(F(0), PyMin2(rsi_value, F(100)))
        a0 == FDiv(FSub(F(50), rsi_clamped), F(50))
        alignment == IF direction_is_upward THEN a0 ELSE FMul(a0, F(-1))
    IN  IF FLe(FAbs(alignment), NeutralBand) THEN F(0)
        ELSE LET magnitude == FSub(FAbs(alignment), NeutralBand)
                 adjusted_alignment ==
                     IF FLt(alignment, F(0)) THEN FNeg(magnitude) ELSE magnitude
             IN  FMul(adjusted_alignment, F(2))

BaseFloor == Fin(<<13, 10>>)
\* line 116
ClampScore_NoCeiling(final_score) == PyMax2(F(0), final_score)
ClampScore(final_score) == PyMax2(F(0), PyMin2(final_score, F(10)))
\* lines 122-131
Tier(final_score) ==
    IF FGe(final_score, F(8)) THEN "Very High"
    ELSE IF FGe(final_score, F(6)) THEN "High"
    ELSE IF FGe(final_score, F(4)) THEN "Moderate"
    ELSE IF FGe(final_score, F(2)) THEN "Low"
    ELSE "Negligible"

calculate_momentum_score(volume_divergence, persistence_count, rsi_value, dominant_dex_has_lower_price) ==
    LET direction_is_upward == dominant_dex_has_lower_price
        volume_component == VolumeComponent(volume_divergence)
        persistence_component == PersistenceComponent(persistence_count)
        consistency_bonus ==
            FMul(PyMin2(FDiv(volume_component, F(4)), FDiv(persistence_component, F(3))),
                 F(2))
        rsi_component == RsiComponent(rsi_value, direction_is_upward)
        sum == FAdd(FAdd(FAdd(FAdd(BaseFloor, volume_component), persistence_component),
                         consistency_bonus), rsi_component)
        final_score == ClampScore(sum)
    IN  [score |-> final_score, tier |-> Tier(final_score),
         direction |-> IF direction_is_upward THEN "Upward" ELSE "Downward"]

NoScore == [score |-> NoneF, tier |-> "none", direction |-> "none"]
NoRsi == [kind |-> "none", v |-> NoneF]
NoRsiArgs == [prices |-> <<>>, period |-> 1]
SInit ==
    /\ score_args \in ScoreArgSets
    /\ score_result = NoScore
SIdle ==
    /\ score_args = ScoreArgs(F(1), 0, F(50), TRUE)
    /\ score_result = calculate_momentum_score(F(1), 0, F(50), TRUE)
RIdle ==
    /\ rsi_args = NoRsiArgs
    /\ rsi_result = [kind |-> "returned", v |-> NoneF]

\* calculate_momentum_score is called with score_args and returns
ScoreCall ==
    /\ score_result = NoScore
    /\ score_result' = calculate_momentum_score(
                           score_args.volume_divergence, score_args.persistence_count,
                           score_args.rsi_value, score_args.dominant_dex_has_lower_price)
    /\ UNCHANGED <<score_args, rsi_args, rsi_result, nvars>>
    /\ UNCHANGED <<avars, vvars, mvars>>

(***************************************************************************)
(* calculate_rsi (momentum_indicator.py)                                   *)
(***************************************************************************)
MaxPrices == 4
PriceValues == {F(1), F(2), F(3), PInf, NaN}
Periods == {-1, 0, 1, 2, 3}
PriceSeqs == UNION {[1..k -> PriceValues] : k \in 0..MaxPrices}
RsiArgSets == [prices : PriceSeqs, period : Periods]

\* len(prices) <= period, with the off-by-one variant
TooFewPrices_OffByOne(prices, period) == Len(prices) < period
TooFewPrices(prices, period) == Len(prices) <= period

\* s[:n]
Take(s, n) == SubSeq(s, 1, IntMin(n, Len(s)))
\* sum(s), which starts from 0
RECURSIVE SumF(_)
SumF(s) == IF Len(s) = 0 THEN F(0)
           ELSE FAdd(SumF(SubSeq(s, 1, Len(s) - 1)), s[Len(s)])

Changes(prices) == [i \in 1..(Len(prices) - 1) |-> FSub(prices[i + 1], prices[i])]
Gains(changes) == [i \in 1..Len(changes) |-> PyMax2(changes[i], F(0))]
Losses(changes) == [i \in 1..Len(changes) |-> PyMax2(FNeg(changes[i]), F(0))]

IsZero(x) == FEq(x, F(0))
\* one of the three cases that need no division
EdgeCase(avg_gain, avg_loss) == IsZero(avg_loss) \/ IsZero(avg_gain)
RsiOf(avg_gain, avg_loss) ==
    IF IsZero(avg_loss) /\ IsZero(avg_gain) THEN F(50)
    ELSE IF IsZero(avg_loss) THEN F(100)
    ELSE IF IsZero(avg_gain) THEN F(0)
    ELSE LET rs == FDiv(avg_gain, avg_loss)
         IN  FSub(F(100), FDiv(F(100), FAdd(F(1), rs)))

\* the Wilder loop over gains[period:] and losses[period:], from index i on
RECURSIVE WilderLoop(_, _, _, _, _, _, _)
WilderLoop(gains, losses, period, i, avg_gain, avg_loss, rsi) ==
    IF i > Len(gains) THEN rsi
    ELSE LET next_gain == FDiv(FAdd(FMul(avg_gain, F(period - 1)), gains[i]), F(period))
             next_loss == FDiv(FAdd(FMul(avg_loss, F(period - 1)), losses[i]), F(period))
         IN  WilderLoop(gains, losses, period, i + 1, next_gain, next_loss,
                        RsiOf(next_gain, next_loss))

RsiRaised == [kind |-> "raised", v |-> NoneF]
RsiReturn(v) == [kind |-> "returned", v |-> v]
calculate_rsi(prices, period) ==
    IF period <= 0 THEN RsiRaised
    ELSE IF TooFewPrices(prices, period) THEN RsiReturn(NoneF)
    ELSE LET changes == Changes(prices)
             gains == Gains(changes)
             losses == Losses(changes)
             avg_gain == FDiv(SumF(Take(gains, period)), F(period))
             avg_loss == FDiv(SumF(Take(losses, period)), F(period))
         IN  IF EdgeCase(avg_gain, avg_loss) THEN RsiReturn(RsiOf(avg_gain, avg_loss))
             ELSE RsiReturn(WilderLoop(gains, losses, period, period + 1,
                                       avg_gain, avg_loss, RsiOf(avg_gain, avg_loss)))

RInit ==
    /\ rsi_args \in RsiArgSets
    /\ rsi_result = NoRsi

\* calculate_rsi is called with rsi_args and returns or raises
RsiCall ==
    /\ rsi_result = NoRsi
    /\ rsi_result' = calculate_rsi(rsi_args.prices, rsi_args.period)
    /\ UNCHANGED <<score_args, score_result, rsi_args, nvars>>
    /\ UNCHANGED <<avars, vvars, mvars>>

(***************************************************************************)
(* ArbitrageScanner._send_telegram_notification (scanner.py)               *)
(***************************************************************************)
MaxNotifications == 2    \* calls of the handler in one run
MaxPrunes == 1           \* calls of _prune_alert_cache in one run
PersistenceWindow == 600 \* seconds a sighting counts towards persistence_count
AlertCooldown == 3600    \* --alert-cooldown default
TimeSteps == {300, 3700} \* seconds between two calls
PruneSteps == {300, 3600} \* seconds from the last call to the end of the scan cycle
MinTweetScore == 7       \* --min-tweet-momentum-score default

AlertConfig(twitter_enabled, twitter_client, ai_analysis_enabled, gemini, min_bullish) ==
    [twitter_enabled |-> twitter_enabled, twitter_client |-> twitter_client,
     ai_analysis_enabled |-> ai_analysis_enabled, gemini |-> gemini,
     min_tweet_momentum_score |-> F(MinTweetScore),
     min_momentum_score_bullish |-> F(min_bullish),
     min_momentum_score_bearish |-> F(0),
     alert_cooldown |-> AlertCooldown,
     repository |-> TRUE]
\* a scanner constructed without a repository
WithoutRepository(config) == [config EXCEPT !.repository = FALSE]
AlertConfigs ==
    { AlertConfig(tw, TRUE, ai, TRUE, mb) : tw \in BOOLEAN, ai \in BOOLEAN, mb \in {0, 5} }
    \cup { AlertConfig(TRUE, FALSE, TRUE, TRUE, 0), AlertConfig(TRUE, TRUE, TRUE, FALSE, 0),
           WithoutRepository(AlertConfig(FALSE, TRUE, FALSE, TRUE, 0)) }

\* the fields of an ArbitrageOpportunity the handler's decisions depend on
AlertOpp(direction, dominant_volume, other_volume) ==
    [direction |-> direction,
     dominant_is_buy_side |-> (direction = "BULLISH"),
     buy_dex_volume_usd |-> IF direction = "BULLISH" THEN dominant_volume ELSE other_volume,
     sell_dex_volume_usd |-> IF direction = "BULLISH" THEN other_volume ELSE dominant_volume]
AlertOpps ==
    { AlertOpp(d, v[1], v[2]) : d \in {"BULLISH", "BEARISH"}, v \in {<<1, 1>>, <<5, 0>>} }
BaseRsis == {F(25), F(75)}   \* base_rsi after history, EMA and CoinGecko

Notification(outcome, score, messages, tweets, writes) ==
    [outcome |-> outcome, score |-> score, messages |-> messages, tweets |-> tweets,
     writes |-> writes]
NoNotification == Notification("none", NoneF, 0, 0, 0)

\* [t for t in times if now - t < 600]
RECURSIVE RecentSightings(_, _)
RecentSightings(times, t_now) ==
    IF Len(times) = 0 THEN <<>>
    ELSE IF t_now - Head(times) < PersistenceWindow
         THEN <<Head(times)>> \o RecentSightings(Tail(times), t_now)
         ELSE RecentSightings(Tail(times), t_now)

\* lines 378-381
VolumeDivergence(opp) ==
    LET dominant_volume == IF opp.dominant_is_buy_side THEN opp.buy_dex_volume_usd
                           ELSE opp.sell_dex_volume_usd
        other_volume == IF opp.dominant_is_buy_side THEN opp.sell_dex_volume_usd
                        ELSE opp.buy_dex_volume_usd
    IN  IF other_volume > 0 THEN Fin(Norm(dominant_volume, other_volume)) ELSE PInf
\* lines 436-442
BlendedRsi(base_rsi, volume_divergence, persistence_count) ==
    LET volume_norm ==
            FDiv(PyMin2(IF IsFin(volume_divergence) THEN volume_divergence ELSE F(5), F(5)),
                 F(5))
        persistence_norm == Fin(Norm(IntMin(persistence_count, 5), 5))
        flow_bias == FDiv(FAdd(volume_norm, persistence_norm), F(2))
        blended_rsi == FAdd(base_rsi, FMul(FSub(flow_bias, Fin(<<1, 2>>)), F(10)))
    IN  PyMax2(F(0), PyMin2(blended_rsi, F(100)))

\* the Twitter block, lines 525-536: the number of post_tweet calls
TweetsPosted(config, momentum_score) ==
    IF config.twitter_enabled /\ config.twitter_client
    THEN IF ~config.ai_analysis_enabled THEN 0
         ELSE IF ~config.gemini THEN 0
         ELSE 1
    ELSE 0

\* the names _persist_momentum_snapshot can read: its parameters (lines 586-597),
\* the locals it assigns before the repository call, and the module's names
PersistParameters ==
    {"self", "opp", "momentum_score", "volume_divergence", "persistence_count",
     "rsi_value", "base_rsi", "dominant_dex_has_lower_price", "opportunity_key",
     "dispatched_at", "momentum_explanation", "momentum_history"}
PersistLocals == {"token_symbol", "volume_divergence_value", "dispatched_dt", "raw_payload"}
ModuleNames == {"math", "datetime", "timezone", "C_RED", "C_RESET"}
\* the names the raw_payload literal of lines 605-638 reads
PayloadNames ==
    {"opp", "momentum_explanation", "base_rsi", "blended_rsi", "momentum_score",
     "volume_divergence_value", "persistence_count", "rsi_value",
     "dominant_dex_has_lower_price", "momentum_history"}
\* lines 584-659: the number of record_opportunity_alert calls.  Reading a name
\* that is not in scope raises NameError inside the try, and the except clause
\* of line 658 ends the function before the repository is reached.
_persist_momentum_snapshot(repository) ==
    IF ~repository THEN 0
    ELSE IF ~(PayloadNames \subseteq PersistParameters \cup PersistLocals \cup ModuleNames)
    THEN 0
    ELSE 1

\* lines 373-449: the score of the opportunity at its persistence_count-th sighting
MomentumScoreOf(opp, persistence_count, base_rsi) ==
    calculate_momentum_score(
        VolumeDivergence(opp), persistence_count,
        BlendedRsi(base_rsi, VolumeDivergence(opp), persistence_count),
        opp.dominant_is_buy_side).score

\* one call of the handler: what it did, and the scanner state it leaves;
\* recent is the pruned sighting list of line 375 and momentum_score the score
\* of line 444, both worked out once by the caller
_send_telegram_notification(config, cache, sightings, t_now, opp, is_vault, send_ok, recent, momentum_score) ==
    LET unchanged(outcome) ==
            [n |-> Notification(outcome, NoneF, 0, 0, 0), cache |-> cache,
             sightings |-> sightings]
        done(outcome, messages, tweets, c) ==
            [n |-> Notification(outcome, momentum_score, messages, tweets,
                                IF outcome = "sent"
                                THEN _persist_momentum_snapshot(config.repository)
                                ELSE 0),
             cache |-> c, sightings |-> recent]
    IN  IF ~(cache = NoneInt \/ t_now - cache > config.alert_cooldown)
        THEN unchanged("cooldown")
        ELSE IF is_vault THEN unchanged("vault")
        ELSE IF opp.direction = "BULLISH"
                /\ FLt(momentum_score, config.min_momentum_score_bullish)
        THEN done("low_momentum", 0, 0, cache)
        ELSE IF opp.direction = "BEARISH"
                /\ FLt(momentum_score, config.min_momentum_score_bearish)
        THEN done("low_momentum", 0, 0, cache)
        ELSE IF ~send_ok THEN done("raised", 0, 0, cache)
        ELSE done("sent", 1, TweetsPosted(config, momentum_score), t_now)

NInit ==
    /\ alert_cfg \in AlertConfigs
    /\ alert_cache = NoneInt
    /\ opportunity_persistence = <<>>
    /\ alert_now = 0
    /\ notify_calls = 0
    /\ last_notification = NoNotification
    /\ prune_calls = 0
    /\ dispatched = <<>>
NIdle ==
    /\ alert_cfg = AlertConfig(FALSE, FALSE, FALSE, FALSE, 0)
    /\ alert_cache = NoneInt
    /\ opportunity_persistence = <<>>
    /\ alert_now = 0
    /\ notify_calls = MaxNotifications
    /\ last_notification = NoNotification
    /\ prune_calls = MaxPrunes
    /\ dispatched = <<>>

\* the scan loop calls _send_telegram_notification(opp); it returns or raises
Notify ==
    /\ notify_calls < MaxNotifications
    /\ \E opp \in AlertOpps, dt \in TimeSteps, is_vault \in BOOLEAN,
          base_rsi \in BaseRsis, send_ok \in BOOLEAN :
        \E recent \in {RecentSightings(Append(opportunity_persistence, alert_now + dt),
                                       alert_now + dt)} :
        \E momentum_score \in {MomentumScoreOf(opp, Len(recent), base_rsi)} :
          LET r == _send_telegram_notification(alert_cfg, alert_cache,
                       opportunity_persistence, alert_now + dt, opp, is_vault,
                       send_ok, recent, momentum_score)
          IN  /\ alert_now' = alert_now + dt
              /\ alert_cache' = r.cache
              /\ opportunity_persistence' = r.sightings
              /\ last_notification' = r.n
              /\ dispatched' = IF r.n.outcome = "sent"
                                THEN Append(dispatched, r.cache) ELSE dispatched
    /\ notify_calls' = notify_calls + 1
    /\ UNCHANGED <<alert_cfg, prune_calls, score_args, score_result, rsi_args, rsi_result>>
    /\ UNCHANGED <<avars, vvars, mvars>>

\* lines 661-664, for the one key of the model: the entry stays while it is
\* younger than the cooldown
_prune_alert_cache_ClearAll(cache, t_now, alert_cooldown) == NoneInt
_prune_alert_cache(cache, t_now, alert_cooldown) ==
    IF cache # NoneInt /\ t_now - cache < alert_cooldown THEN cache ELSE NoneInt

\* the main loop prunes the cache after every scan cycle (line 83)
Prune ==
    /\ prune_calls < MaxPrunes
    /\ \E dt \in PruneSteps :
          /\ alert_now' = alert_now + dt
          /\ alert_cache' = _prune_alert_cache(alert_cache, alert_now + dt,
                                               alert_cfg.alert_cooldown)
    /\ prune_calls' = prune_calls + 1
    /\ UNCHANGED <<alert_cfg, opportunity_persistence, notify_calls, last_notification,
                   dispatched, score_args, score_result, rsi_args, rsi_result>>
    /\ UNCHANGED <<avars, vvars, mvars>>

(***************************************************************************)
(* Specifications: one per component, the other components at rest         *)
(***************************************************************************)
Init == AInit /\ VIdle /\ MIdle /\ SIdle /\ RIdle /\ NIdle
Next == EarlyReturn \/ ScanPair \/ EndScan \/ ComparePair \/ Return
Spec == Init /\ [][Next]_vars

InitValidator == AIdle /\ VInit /\ MIdle /\ SIdle /\ RIdle /\ NIdle
NextValidator ==
    \E t \in SequentialTasks :
        \/ CallStart(t)
        \/ RecvBlock(t)
        \/ RecvToken0(t)
        \/ RecvToken1(t)
        \/ RecvReserves(t)
        \/ RecvDecTarget(t)
        \/ RecvDecCounter(t)
SpecValidator == InitValidator /\ [][NextValidator]_vars

InitMultiLeg == AIdle /\ VIdle /\ MInit /\ SIdle /\ RIdle /\ NIdle
NextMultiLeg == BuildStep \/ EndBuild \/ FindCycles \/ CycleStep \/ MReturn
SpecMultiLeg == InitMultiLeg /\ [][NextMultiLeg]_vars

\* validate_pair_price calls of several tasks running at once on one instance;
\* the pair's tokens, its reserves at a block and the decimals are constants of
\* the chain, so every request for one of them gets the same result or an
\* error, while the block number moves on between requests
\* of the answers the endpoint can give, the JSON-RPC errors and these results
AnswersOf(outcomes, results) ==
    {o \in outcomes : o.kind = "rpc_error" \/ (o.kind = "ok" /\ o.v \in results)}
ConcurrentArgSets ==
    { Args("base", "0xPAIR", "TGT", "none", F(1500), F(2000)) }
InitConcurrent == InitValidator
NextConcurrent ==
    \E t \in Tasks :
        \/ CallStartFrom(t, ConcurrentArgSets, MaxConcurrentCalls)
        \/ RecvBlockFrom(t, AnswersOf(BlockOutcomes, Blocks))
        \/ RecvToken0From(t, AnswersOf(TokenOutcomes, {"0xtgt"}))
        \/ RecvToken1From(t, AnswersOf(TokenOutcomes, {"0xusdc"}))
        \/ RecvReservesFrom(t, AnswersOf(ReserveOutcomes, {<<20, 31500>>}))
        \/ RecvDecTargetFrom(t, AnswersOf(DecimalsOutcomes, {0}))
        \/ RecvDecCounterFrom(t, AnswersOf(DecimalsOutcomes, {1}))
SpecConcurrent == InitConcurrent /\ [][NextConcurrent]_vars

InitScore == AIdle /\ VIdle /\ MIdle /\ SInit /\ RIdle /\ NIdle
NextScore == ScoreCall
SpecScore == InitScore /\ [][NextScore]_vars

InitRsi == AIdle /\ VIdle /\ MIdle /\ SIdle /\ RInit /\ NIdle
NextRsi == RsiCall
SpecRsi == InitRsi /\ [][NextRsi]_vars

InitNotify == AIdle /\ VIdle /\ MIdle /\ SIdle /\ RIdle /\ NInit
NextNotify == Notify \/ Prune
SpecNotify == InitNotify /\ [][NextNotify]_vars


(***************************************************************************)
(* Claims about validate_pair_price                                        *)
(***************************************************************************)
Done(t) == calls[t].pc = "done"
Res(t) == calls[t].result
NoError == "none"

\* |a - b| / b * 100, for finite a and positive finite b
PctDiff(a, b) ==
    LET d == RSub(a.v, b.v)
    IN  Fin(RMul(RDiv(<<Abs(d[1]), d[2]>>, b.v), R(100)))

\* C6: when an on-chain USD price was obtained and the quoted price is
\* positive, the result is validated, diff_pct is the absolute percentage
\* difference from the quoted price, passed is diff_pct <= max_pct_diff, and
\* the error is 'price_mismatch' when not passed and None when passed.
C6_DiffPctAndPassed ==
    \A t \in Tasks :
        (Done(t) /\ calls[t].price_in_counter # NoneF /\ Res(t).price_usd # NoneF
            /\ FGt(calls[t].args.dex_price_usd, F(0)))
        => /\ Res(t).validated
           /\ Res(t).diff_pct = PctDiff(Res(t).price_usd, calls[t].args.dex_price_usd)
           /\ Res(t).passed <=> FLe(Res(t).diff_pct, MaxPctDiff)
           /\ ~Res(t).passed => Res(t).error = "price_mismatch"
           /\ Res(t).passed => Res(t).error = NoError
\* C6 witness: a validation that passed with the difference exactly at the tolerance
C6_Witness ==
    \E t \in Tasks :
        /\ Done(t) /\ Res(t).validated /\ Res(t).passed
        /\ FGt(calls[t].args.dex_price_usd, F(0))
        /\ Res(t).diff_pct = MaxPctDiff
\* C6, second case: a validated result that failed the comparison
C6_WitnessMismatch ==
    \E t \in Tasks :
        /\ Done(t) /\ Res(t).validated /\ ~Res(t).passed
        /\ Res(t).error = "price_mismatch"
        /\ FGt(Res(t).diff_pct, MaxPctDiff)

\* C7: validate_pair_price never raises, whatever the arguments and whatever
\* the RPC endpoint answers.
C7_NeverRaises == \A t \in Tasks : calls[t].pc # "raised"
\* C7: a call that raised was computing 10 ** decimals for a negative decimals
C7_RaisedOnlyOnDecimals ==
    \A t \in Tasks :
        calls[t].pc = "raised"
        => /\ calls[t].exc = "ZeroDivisionError"
           /\ (calls[t].target_decimals < MinFloatExp10
               \/ calls[t].counter_decimals < MinFloatExp10)

\* C8 as stated: every result with passed=False carries an error: validated=False
\* with an error code, or validated=True with 'price_mismatch'.
C8_FailedHasError ==
    \A t \in Tasks :
        (Done(t) /\ ~Res(t).passed)
        => /\ Res(t).error # NoError
           /\ Res(t).validated => Res(t).error = "price_mismatch"
\* C8 amended: every result with passed=False carries an error (validated=False
\* with an error code, or validated=True with 'price_mismatch'), except a
\* validated result for which no positive quoted price was supplied: there
\* diff_pct and error are both None.
C8_FailedHasErrorUnlessNotCompared ==
    \A t \in Tasks :
        (Done(t) /\ ~Res(t).passed)
        => \/ ~Res(t).validated /\ Res(t).error \notin {NoError, "price_mismatch"}
           \/ /\ Res(t).validated /\ Res(t).error = "price_mismatch"
              /\ FGt(calls[t].args.dex_price_usd, F(0))
           \/ /\ Res(t).validated /\ Res(t).error = NoError
              /\ Res(t).diff_pct = NoneF
              /\ ~FGt(calls[t].args.dex_price_usd, F(0))
\* C8 witness: a validated result, not passed, without an error
C8_Witness ==
    \E t \in Tasks :
        /\ Done(t) /\ Res(t).validated /\ ~Res(t).passed
        /\ Res(t).error = NoError /\ Res(t).price_usd # NoneF

\* the chain's token table, read as the claim reads it
IsTableToken(chain, token, keys) ==
    \E key \in keys : ChainToken(chain, key) # "none"
                      /\ Lower(token) = Lower(ChainToken(chain, key))
IsStable(t) ==
    IsTableToken(calls[t].args.chain_name, calls[t].counter_token, {"usdc", "usdt", "dai"})
IsWrappedNative(t) ==
    IsTableToken(calls[t].args.chain_name, calls[t].counter_token,
                 {"weth", "wmatic", "wbnb"})
\* the decimal-adjusted reserve ratio counter/target
ReserveRatio(t) ==
    Fin(RDiv(RDiv(R(calls[t].reserve_counter), Pow10(calls[t].counter_decimals)),
             RDiv(R(calls[t].reserve_target), Pow10(calls[t].target_decimals))))
Converted(t) == Done(t) /\ calls[t].price_in_counter # NoneF
Unsupported(t) ==
    /\ ~Res(t).validated
    /\ Res(t).error = "unsupported_quote_token"
    /\ Res(t).price_usd = NoneF

\* C9 as stated: the USD price is the reserve ratio for a stablecoin counter
\* token, ratio x native USD price for a wrapped-native counter token, and
\* every other case is validated=False, 'unsupported_quote_token', price None.
C9_UsdConversion ==
    \A t \in Tasks :
        Converted(t)
        => IF IsStable(t) THEN Res(t).validated /\ Res(t).price_usd = ReserveRatio(t)
           ELSE IF IsWrappedNative(t)
           THEN /\ Res(t).validated
                /\ calls[t].args.native_price_usd # NoneF
                /\ Res(t).price_usd = FMul(ReserveRatio(t), calls[t].args.native_price_usd)
           ELSE Unsupported(t)
\* C9 amended: as C9, the wrapped-native case applying only when a native USD
\* price was supplied; a wrapped-native counter token without a native USD
\* price is among the unsupported cases.
C9_UsdConversionGivenNativePrice ==
    \A t \in Tasks :
        Converted(t)
        => IF IsStable(t) THEN Res(t).validated /\ Res(t).price_usd = ReserveRatio(t)
           ELSE IF IsWrappedNative(t) /\ calls[t].args.native_price_usd # NoneF
           THEN /\ Res(t).validated
                /\ Res(t).price_usd = FMul(ReserveRatio(t), calls[t].args.native_price_usd)
           ELSE Unsupported(t)
\* C9 witness: a wrapped-native counter token priced through the native USD price
C9_Witness ==
    \E t \in Tasks :
        /\ Converted(t) /\ IsWrappedNative(t) /\ Res(t).validated
        /\ calls[t].args.native_price_usd = F(2000)
        /\ Res(t).price_usd = FMul(ReserveRatio(t), F(2000))
\* C9, other cases reached: a stablecoin counter token, and an unsupported one
C9_WitnessStable == \E t \in Tasks : Converted(t) /\ IsStable(t) /\ Res(t).validated
C9_WitnessUnsupported ==
    \E t \in Tasks : Converted(t) /\ ~IsStable(t) /\ ~IsWrappedNative(t) /\ Unsupported(t)


(***************************************************************************)
(* Claims about the cycle finder                                           *)
(***************************************************************************)
MReturned == mpc = "returned"
UnorderedPairs == {{"A", "B"}, {"B", "C"}, {"C", "A"}}
\* the raw list is exactly three pairs, one per side of the triangle A, B, C,
\* each of which gave the graph its two edges with finite rates
IsTriangle ==
    /\ Len(m_pairs) = 3
    /\ {{m_pairs[i].base, m_pairs[i].quote} : i \in 1..3} = UnorderedPairs
    /\ \A i \in 1..3 :
          /\ graph[<<m_pairs[i].base, m_pairs[i].quote>>] =
                Edge(graph[<<m_pairs[i].base, m_pairs[i].quote>>].rate, i)
          /\ graph[<<m_pairs[i].quote, m_pairs[i].base>>].set
          /\ graph[<<m_pairs[i].quote, m_pairs[i].base>>].pair_info = i
          /\ IsFin(graph[<<m_pairs[i].base, m_pairs[i].quote>>].rate)
Orientations == {<<"A", "B", "C">>, <<"A", "C", "B">>}
\* ((1 - fee%) (1 - slippage%)) ^ 3
KeepFactor3 ==
    LET k == FMul(FSub(F(1), FDiv(mcfg.dex_fee, F(100))),
                  FSub(F(1), FDiv(mcfg.slippage, F(100))))
    IN  FMul(k, FMul(k, k))
RateProduct3(o) ==
    FMul(graph[<<o[1], o[2]>>].rate,
         FMul(graph[<<o[2], o[3]>>].rate, graph[<<o[3], o[1]>>].rate))
\* trade_volume x (product of rates x keep factor - 1) - 3 x per-swap gas
FormulaNet(o) ==
    FSub(FMul(mcfg.trade_volume, FSub(FMul(RateProduct3(o), KeepFactor3), F(1))),
         FMul(F(3), GasCostUsd3))
ProfitableTriangle(o) ==
    /\ IsTriangle
    /\ mcfg.max_cycle_length >= 3
    /\ FGt(FMul(RateProduct3(o), KeepFactor3), F(1))
    /\ FGt(FormulaNet(o), mcfg.min_profit)
ExactlyThatCycle(o) ==
    /\ Len(m_opps) = 1
    /\ m_opps[1].num_swaps = 3
    /\ m_opps[1].net_profit_usd = FormulaNet(o)
    /\ m_opps[1].cycle \in Rotations(o)
AllPriced ==
    \A t \in Tokens : IsFin(token_prices_usd[t]) /\ FGt(token_prices_usd[t], F(0))

\* C10 as stated: a profitable triangle of exactly three pairs gives exactly
\* one opportunity, of 3 swaps, with the net profit of the formula, in the
\* profitable orientation.
C10_TriangleOneOpportunity ==
    \A o \in Orientations :
        (MReturned /\ ProfitableTriangle(o)) => ExactlyThatCycle(o)
\* C10 amended: the same, for a triangle whose three tokens each have a
\* finite positive USD price in the raw pair data.
C10_PricedTriangleOneOpportunity ==
    \A o \in Orientations :
        (MReturned /\ ProfitableTriangle(o) /\ AllPriced) => ExactlyThatCycle(o)
\* C10 witness: a priced profitable triangle under fee and slippage, returned
C10_Witness ==
    \E o \in Orientations :
        /\ MReturned /\ ProfitableTriangle(o) /\ AllPriced
        /\ mcfg.dex_fee = F(10) /\ mcfg.slippage = F(20)
        /\ ExactlyThatCycle(o)
\* C10: a profitable triangle with an unpriced token returns nothing
C10_WitnessUnpriced ==
    \E o \in Orientations :
        MReturned /\ ProfitableTriangle(o) /\ ~AllPriced /\ m_opps = <<>>


\* C11: every opportunity returned by find_multi_leg_opportunities has at
\* least 3 swaps, net_profit_usd > min_profit, a cycle_path of num_swaps + 1
\* symbols that starts and ends with the same symbol, and gas_cost_usd equal
\* to the per-swap gas cost times num_swaps.
C11_ReturnedOpportunityShape ==
    MReturned =>
        \A i \in 1..Len(m_opps) :
            /\ m_opps[i].num_swaps >= 3
            /\ FGt(m_opps[i].net_profit_usd, mcfg.min_profit)
            /\ Len(m_opps[i].cycle_path) = m_opps[i].num_swaps + 1
            /\ m_opps[i].cycle_path[1] = m_opps[i].cycle_path[Len(m_opps[i].cycle_path)]
            /\ m_opps[i].gas_cost_usd = FMul(GasCostUsd3, F(m_opps[i].num_swaps))
\* C11 witness: an opportunity was returned whose path holds a symbol the
\* token map does not know
C11_Witness ==
    /\ MReturned
    /\ \E i \in 1..Len(m_opps) :
          /\ m_opps[i].num_swaps = 3
          /\ \E k \in 1..4 : m_opps[i].cycle_path[k] \in Tokens


(***************************************************************************)
(* Claims about calculate_momentum_score                                   *)
(***************************************************************************)
Scored == score_result # NoScore
\* the score of the call with one argument replaced
ScoreWithVolume(v) ==
    calculate_momentum_score(v, score_args.persistence_count, score_args.rsi_value,
                             score_args.dominant_dex_has_lower_price).score
ScoreWithPersistence(p) ==
    calculate_momentum_score(score_args.volume_divergence, p, score_args.rsi_value,
                             score_args.dominant_dex_has_lower_price).score

\* C12: the score is finite and within [0, 10] for every input, infinite,
\* zero or negative volume_divergence, persistence_count outside [0, 12] and
\* rsi_value outside [0, 100] included.
C12_ScoreWithinRange ==
    Scored => /\ IsFin(score_result.score)
              /\ FLe(F(0), score_result.score)
              /\ FLe(score_result.score, F(10))
\* C12 witness: infinite volume_divergence, persistence above 12 and RSI above
\* 100 scored, clamped to 10
C12_Witness ==
    /\ Scored
    /\ score_args.volume_divergence = PInf
    /\ score_args.persistence_count > 12
    /\ FGt(score_args.rsi_value, F(100))
    /\ score_result.score = F(10)
\* C12, lower end: a score clamped to 0
C12_WitnessFloor == Scored /\ score_result.score = F(0)

\* C13 as stated: for any v1 <= v2, other inputs fixed, score(v1) <= score(v2).
C13_MonotoneInVolume ==
    Scored =>
        \A v2 \in VolumeDivergences :
            FLe(score_args.volume_divergence, v2)
            => FLe(score_result.score, ScoreWithVolume(v2))
\* C13 amended: for any 0 < v1 <= v2 (v2 finite or +inf), other inputs fixed,
\* score(v1) <= score(v2).
C13_MonotoneInPositiveVolume ==
    Scored =>
        \A v2 \in VolumeDivergences :
            (FGt(score_args.volume_divergence, F(0))
                /\ FLe(score_args.volume_divergence, v2))
            => FLe(score_result.score, ScoreWithVolume(v2))
\* C13 witness: a positive volume_divergence scored strictly below a larger one
C13_Witness ==
    /\ Scored
    /\ score_args.volume_divergence = F(1)
    /\ \E v2 \in VolumeDivergences :
          /\ FLt(score_args.volume_divergence, v2)
          /\ FLt(score_result.score, ScoreWithVolume(v2))
\* C13: a zero volume_divergence scored strictly above a larger positive one
C13_WitnessNonPositive ==
    /\ Scored
    /\ score_args.volume_divergence = F(0)
    /\ FGt(score_result.score, ScoreWithVolume(F(1)))

\* C14: for any integer counts p1 <= p2, other inputs fixed,
\* score(p1) <= score(p2).
C14_MonotoneInPersistence ==
    Scored =>
        \A p2 \in PersistenceCounts :
            score_args.persistence_count <= p2
            => FLe(score_result.score, ScoreWithPersistence(p2))
\* C14 witness: a count scored strictly below a larger count, and a count
\* above the cap scored
C14_Witness ==
    /\ Scored
    /\ score_args.persistence_count = 1
    /\ FLt(score_result.score, ScoreWithPersistence(3))
    /\ FLe(ScoreWithPersistence(12), ScoreWithPersistence(13))


(***************************************************************************)
(* Claims about calculate_rsi                                              *)
(***************************************************************************)
RsiDone == rsi_result # NoRsi
StrictlyIncreasing(prices) ==
    \A i \in 1..(Len(prices) - 1) : FLt(prices[i], prices[i + 1])
AllFinite(prices) == \A i \in 1..Len(prices) : IsFin(prices[i])
InRsiRange(v) == IsFin(v) /\ FLe(F(0), v) /\ FLe(v, F(100))
RaisesOrNone ==
    /\ rsi_args.period <= 0 => rsi_result = RsiRaised
    /\ (rsi_args.period > 0 /\ Len(rsi_args.prices) < rsi_args.period + 1)
       => rsi_result = RsiReturn(NoneF)
Computes == rsi_args.period > 0 /\ Len(rsi_args.prices) >= rsi_args.period + 1

C15_WitnessIncreasing ==
    /\ RsiDone
    /\ Len(rsi_args.prices) = MaxPrices
    /\ StrictlyIncreasing(rsi_args.prices)
    /\ rsi_result = RsiReturn(F(100))
\* C15: a non-positive period raised, and a short series gave None
C15_WitnessRaised == RsiDone /\ rsi_result = RsiRaised
C15_WitnessNone ==
    /\ RsiDone
    /\ Len(rsi_args.prices) = rsi_args.period
    /\ rsi_result = RsiReturn(NoneF)
\* C15: a series with a non-finite price gave nan
C15_WitnessNaN == RsiDone /\ rsi_result.kind = "returned" /\ IsNaN(rsi_result.v)


(***************************************************************************)
(* Claims about the analyzer's threshold filter and settings               *)
(***************************************************************************)
\* the three standard thresholds and the five early-momentum floors, as stated
MeetsStandard(config, prof) ==
    /\ FGe(F(prof.liq), config.min_liquidity)
    /\ FGe(F(prof.h24), config.min_volume)
    /\ (config.min_txns_h1 = 0 \/ prof.h1_buys + prof.h1_sells >= config.min_txns_h1)
MeetsEarlyFloors(liq, h24, m5, txns_m5) ==
    /\ liq >= 200000
    /\ h24 >= 300000
    /\ m5 >= 25000
    /\ txns_m5 >= 3
    /\ m5 * 1000 >= 35 * h24
ProfMeetsEarlyFloors(prof) ==
    MeetsEarlyFloors(prof.liq, prof.h24, prof.m5, prof.m5_buys + prof.m5_sells)
\* a record of the scanned chain that nothing but the threshold filter can drop
OnlyThresholdsDecide(pair) ==
    /\ pair.shape = "ok" /\ pair.chainId = chain_name
    /\ FloatOk(pair.priceUsd) /\ FloatOk(pair.priceNative)
    /\ \/ pair.side = "base"
       \/ pair.side = "quote" /\ ~FEq(pair.priceNative, F(0))
Quotes == UNION { {prices_by_pair[n][i] : i \in 1..Len(prices_by_pair[n])} :
                  n \in DOMAIN prices_by_pair }

\* C16: a record passes the threshold filter exactly when it meets the three
\* standard thresholds or the five early-momentum floors; its quote is flagged
\* early-momentum exactly when it passes by the early-momentum route only; an
\* emitted opportunity has is_early_momentum exactly when one of its two legs
\* is flagged.
C16_ThresholdFilter ==
    /\ \A pair \in RawPairs :
         LET r == ScanRecord(cfg, chain_name, pair)
             std == MeetsStandard(cfg, pair.prof)
             early == ProfMeetsEarlyFloors(pair.prof)
         IN  /\ OnlyThresholdsDecide(pair) => ((r.kind = "quote") = (std \/ early))
             /\ r.kind = "quote" =>
                   /\ std \/ early
                   /\ r.q.is_early_momentum = (~std /\ early)
    /\ \A q \in Quotes :
         IF q.is_early_momentum
         THEN MeetsEarlyFloors(q.liquidity, q.volume_24h, q.volume_m5, q.txns_m5_total)
         ELSE FGe(F(q.liquidity), cfg.min_liquidity) /\ FGe(F(q.volume_24h), cfg.min_volume)
    /\ \A k \in OppIdx :
         Opp(k).is_early_momentum
            = (Opp(k).leg_a.is_early_momentum \/ Opp(k).leg_b.is_early_momentum)
\* C16 witness: an opportunity was emitted from a leg that passed by the
\* early-momentum route only and a leg that met the standard thresholds, while
\* a record meeting four of the five floors was dropped
C16_Witness ==
    /\ Returned
    /\ \E k \in OppIdx :
         /\ Opp(k).is_early_momentum
         /\ Opp(k).leg_a.is_early_momentum # Opp(k).leg_b.is_early_momentum
    /\ \E pair \in RawPairs :
         /\ OnlyThresholdsDecide(pair)
         /\ pair.prof = StaleProfile
         /\ ScanRecord(cfg, chain_name, pair) = Skip
\* C16: an opportunity of two standard legs is not flagged
C16_WitnessStandard ==
    /\ Returned
    /\ \E k \in OppIdx : ~Opp(k).is_early_momentum


\* C17: with limit_base_dexes enabled and chain 'base', no emitted opportunity
\* has a buy or sell venue outside the allowlist {aerodrome, uniswap,
\* uniswap-v3}.
C17_BaseAllowlist ==
    (cfg.limit_base_dexes /\ chain_name = "base") =>
        \A k \in OppIdx :
            /\ Opp(k).buy_dex \in BASE_ALLOWED_SINGLES
            /\ Opp(k).sell_dex \in BASE_ALLOWED_SINGLES

\* C18: no emitted BULLISH opportunity has net_profit_usd below
\* min_bullish_profit.
C18_BullishNetProfitFloor ==
    \A k \in OppIdx :
        Opp(k).direction = "BULLISH"
        => FGe(Opp(k).net_profit_usd, cfg.min_bullish_profit)
\* C18, for opportunities of numeric prices only (the nan prices of C1 left
\* out): still violated
C18_NumericBullishNetProfitFloor ==
    \A k \in OppIdx :
        (Opp(k).direction = "BULLISH" /\ IsFin(Opp(k).net_profit_usd))
        => FGe(Opp(k).net_profit_usd, cfg.min_bullish_profit)


(***************************************************************************)
(* Claims about the JSON-RPC request ids                                   *)
(***************************************************************************)
\* C19: under any interleaving of concurrently running validate_pair_price
\* calls, no two requests carry the same id; the ids are 1, 2, 3, ... in the
\* order the requests are made, with no repeat and no gap.
C19_RequestIdsUnique ==
    /\ \A i \in 1..Len(requests) : requests[i] = i
    /\ \A i, j \in 1..Len(requests) : requests[i] = requests[j] => i = j
    /\ next_request_id = Len(requests) + 1
\* C19 witness: two calls are in flight at once, each waiting for the answer
\* to a request of its own, after at least four requests
C19_Witness ==
    /\ calls["t1"].pc = "wait_reserves"
    /\ calls["t2"].pc = "wait_token1"
    /\ Len(requests) >= 4


(***************************************************************************)
(* Claims about the alert handler                                          *)
(***************************************************************************)
\* the last call sent its Telegram message with Twitter and AI analysis set up
AlertedWithTwitter ==
    /\ last_notification.outcome = "sent"
    /\ alert_cfg.twitter_enabled /\ alert_cfg.twitter_client
    /\ alert_cfg.ai_analysis_enabled /\ alert_cfg.gemini

\* C20: with Twitter enabled, an alert whose momentum score is below
\* min_tweet_momentum_score posts no tweet while its Telegram message is
\* sent, and an alert whose score is at or above the threshold posts exactly
\* one tweet.
C20_TweetThreshold ==
    AlertedWithTwitter =>
        IF FLt(last_notification.score, alert_cfg.min_tweet_momentum_score)
        THEN last_notification.tweets = 0 /\ last_notification.messages = 1
        ELSE last_notification.tweets = 1
\* C20: what the handler does instead: every alert posts one tweet
C20_EveryAlertTweets ==
    AlertedWithTwitter =>
        last_notification.tweets = 1 /\ last_notification.messages = 1
\* C20: an alert scored below the threshold was sent and tweeted
C20_WitnessBelowThreshold ==
    /\ AlertedWithTwitter
    /\ FLt(last_notification.score, alert_cfg.min_tweet_momentum_score)
    /\ last_notification.tweets = 1

\* C21: two alerts for the same opportunity key are never closer together than
\* alert_cooldown seconds, counted from the timestamp the earlier alert recorded,
\* whatever scan cycles and cache prunes happen in between
C21_CooldownBetweenAlerts ==
    \A i \in 1..Len(dispatched) : \A j \in 1..Len(dispatched) :
        i < j => dispatched[j] - dispatched[i] >= alert_cfg.alert_cooldown
\* a second alert went out after a prune had dropped the first one's entry
C21_Witness ==
    /\ Len(dispatched) = 2
    /\ prune_calls > 0
    /\ dispatched[2] - dispatched[1] < alert_cfg.alert_cooldown + 400
\* a repeat sighting inside the cooldown was skipped although a prune ran first
C21_WitnessSkipped ==
    /\ Len(dispatched) = 1
    /\ prune_calls > 0
    /\ notify_calls = 2
    /\ last_notification.outcome = "cooldown"
    /\ alert_cache = dispatched[1]

\* the requests of one call in the order the code issues them, and the error
\* code of the except clause around each
RequestOrder ==
    <<"wait_block", "wait_token0", "wait_token1", "wait_reserves", "wait_dec_target",
      "wait_dec_counter">>
RankOf(step) == CHOOSE i \in 1..Len(RequestOrder) : RequestOrder[i] = step
ErrorOf(step) ==
    CASE step = "wait_block" -> "block_number_error"
      [] step \in {"wait_token0", "wait_token1"} -> "token_resolution_error"
      [] step = "wait_reserves" -> "reserve_fetch_error"
      [] OTHER -> "decimals_error"
\* the last request a call that returned `error` may have issued
LastStepFor(error) ==
    CASE error = "missing_pair_metadata" -> 0
      [] error = "block_number_error" -> 1
      [] error \in {"token_resolution_error", "token_resolution_missing",
                    "target_not_in_pair"} -> 3
      [] error \in {"reserve_fetch_error", "empty_reserves"} -> 4
      [] OTHER -> 6

\* C22: one validate_pair_price call issues its requests in the order
\* eth_blockNumber, token0, token1, getReserves, decimals(target),
\* decimals(counter), each at most once; a request that fails ends the call
\* with that step's error code as the last request issued, and a call a check
\* rejected has issued no request of a later step
C22_RequestOrder ==
    \A t \in Tasks :
        LET c == calls[t]
        IN  /\ \A i \in 1..Len(c.sent) : \A j \in 1..Len(c.sent) :
                   i < j => RankOf(c.sent[i]) < RankOf(c.sent[j])
            /\ c.failed # "none" =>
                   /\ c.pc = "done"
                   /\ c.sent # <<>> /\ c.sent[Len(c.sent)] = c.failed
                   /\ c.result.error = ErrorOf(c.failed)
                   /\ ~c.result.validated
            /\ c.pc = "done" =>
                   /\ \A i \in 1..Len(c.sent) :
                          RankOf(c.sent[i]) <= LastStepFor(c.result.error)
                   /\ c.result.error \in {"block_number_error", "token_resolution_error",
                                          "reserve_fetch_error", "decimals_error"}
                          => c.failed # "none"
\* all six requests went out and the last one failed
C22_Witness ==
    \E t \in Tasks :
        /\ calls[t].sent = RequestOrder
        /\ calls[t].failed = "wait_dec_counter"
        /\ calls[t].result.error = "decimals_error"
\* a check rejected the call after getReserves and no decimals request followed
C22_WitnessRejected ==
    \E t \in Tasks :
        /\ calls[t].pc = "done"
        /\ calls[t].result.error = "empty_reserves"
        /\ calls[t].sent = <<"wait_block", "wait_token0", "wait_token1", "wait_reserves">>
\* a later call that found the block and the tokens cached asks for less
C22_WitnessCached ==
    \E t \in Tasks :
        /\ calls[t].pc = "done"
        /\ calls[t].failed = "wait_dec_target"
        /\ calls[t].sent = <<"wait_reserves", "wait_dec_target">>

\* call t started after a call with the same arguments had returned
\* validated=True, within block_cache_ttl of that call's own block-number fetch
RepeatsValidated(t) ==
    LET c == calls[t]
        first == c.prior.rec
    IN  /\ c.pc # "idle"
        /\ first.result.validated
        /\ first.args = c.args
        /\ first.fetched_at # NoneInt
        /\ c.now0 - first.fetched_at <= BlockCacheTtl
\* call t issued no request and returned what the earlier call returned
ServedFromCaches(t) ==
    LET c == calls[t]
        first == c.prior.rec
    IN  /\ c.sent = <<>>
        /\ c.pc = "done"
        /\ c.result.price_usd = first.result.price_usd
        /\ c.result.diff_pct = first.result.diff_pct
        /\ c.result.block_number = first.result.block_number

\* C23: a call that repeats a validated call within block_cache_ttl of that
\* call's block-number fetch issues no JSON-RPC request and returns the same
\* price_usd, diff_pct and block_number
C23_RepeatServedFromCaches ==
    \A t \in Tasks : RepeatsValidated(t) => ServedFromCaches(t)
\* C23, amended: the same, provided the block cache still holds the entry the
\* earlier call's fetch wrote when the repeat starts (no other task's
\* eth_blockNumber answer has replaced it)
C23_RepeatServedWhenBlockCacheIntact ==
    \A t \in Tasks :
        RepeatsValidated(t) /\ calls[t].prior.intact => ServedFromCaches(t)
\* a repeat that was answered from the caches alone
C23_Witness ==
    \E t \in Tasks :
        /\ RepeatsValidated(t) /\ calls[t].prior.intact
        /\ ServedFromCaches(t)
        /\ calls[t].result.validated
        /\ requests # <<>>
\* a repeat that found another task's block number in the cache and went back
\* to the endpoint
C23_WitnessReplaced ==
    \E t \in Tasks :
        /\ RepeatsValidated(t) /\ ~calls[t].prior.intact
        /\ calls[t].sent # <<>>

\* the RSI the description defines: seed the averages with the simple means of
\* the first `period` changes, smooth through every remaining change, and read
\* the RSI (with its 50 / 100 / 0 edge values) off the final averages
SmoothedRsi(prices, period) ==
    LET changes == Changes(prices)
        gains == Gains(changes)
        losses == Losses(changes)
        avg_gain == FDiv(SumF(Take(gains, period)), F(period))
        avg_loss == FDiv(SumF(Take(losses, period)), F(period))
    IN  WilderLoop(gains, losses, period, period + 1, avg_gain, avg_loss,
                   RsiOf(avg_gain, avg_loss))

\* C24: for a series of more than period prices calculate_rsi returns the RSI
\* of the averages seeded from the first period changes and smoothed through
\* every remaining change
C24_SmoothsThroughEveryChange ==
    RsiDone /\ Computes =>
        rsi_result = RsiReturn(SmoothedRsi(rsi_args.prices, rsi_args.period))
\* prices 1, 2, 3, 2 with period 2: the seed has no loss, the last change is one
C24_WitnessEarlyReturn ==
    /\ RsiDone
    /\ rsi_args = [prices |-> <<F(1), F(2), F(3), F(2)>>, period |-> 2]
    /\ rsi_result = RsiReturn(F(100))
    /\ SmoothedRsi(rsi_args.prices, rsi_args.period) = F(50)

\* the pair is well formed and its base->quote rate is a positive finite number
PositiveFiniteRate(pair) ==
    /\ pair.shape = "ok"
    /\ RateBaseToQuote(pair).ok
    /\ IsFin(RateBaseToQuote(pair).rate)
    /\ FGt(RateBaseToQuote(pair).rate, F(0))
\* the pair trades u against v, in either orientation
Trades(pair, u, v) == {pair.base, pair.quote} = {u, v}
BuiltFromPositiveFiniteRates ==
    /\ mpc # "build"
    /\ \A i \in 1..Len(m_pairs) : PositiveFiniteRate(m_pairs[i])

ListingOutcome(cycle) ==
    IF Len(cycle) < 3 \/ ~PathWeightNegative(graph, cycle) THEN NoOpp
    ELSE LET opportunity == calculate_cycle_profitability(cycle, graph, mcfg, GasCostUsd3,
                                                          token_prices_usd)
         IN  IF opportunity.kind = "opp"
             THEN [kind |-> "opp", gross_profit_usd |-> opportunity.gross_profit_usd,
                   net_profit_usd |-> opportunity.net_profit_usd]
             ELSE NoOpp
\* the cycles of the graph have been listed and some are still to be visited
CyclesListed == mpc = "cycles"
CyclePriced(c) ==
    \A i \in 1..Len(c) :
        IsFin(token_prices_usd[c[i]]) /\ FGt(token_prices_usd[c[i]], F(0))

C26_WitnessUnpriced ==
    /\ CyclesListed
    /\ \E c \in m_cycles : \E r1 \in Rotations(c) : \E r2 \in Rotations(c) :
          ListingOutcome(r1).kind = "opp" /\ ListingOutcome(r2) = NoOpp

\* C27: with a repository configured, every Telegram alert is followed in the
\* same notification by one record_opportunity_alert write holding its score
C27_EveryAlertRecorded ==
    last_notification.outcome = "sent" /\ alert_cfg.repository =>
        last_notification.writes = 1
\* an alert went out with a repository configured and nothing was written
C27_WitnessNotRecorded ==
    /\ last_notification.outcome = "sent"
    /\ last_notification.messages = 1
    /\ alert_cfg.repository
    /\ last_notification.writes = 0

C28_WitnessEarly ==
    /\ Returned
    /\ \E k \in OppIdx :
          Opp(k).is_early_momentum /\ Opp(k).price_impact_pct = Fin(<<2, 5>>)

\* C29: in every call that has resolved its target, the counter token whose
\* decimals are fetched and which is matched against the stablecoin and
\* wrapped-native tables is the pair's own other token, whatever
\* counter_token_address the caller passed
C29_CounterIsPairsOtherToken ==
    \A t \in Tasks :
        calls[t].pair_other # "none" => calls[t].counter_token = calls[t].pair_other
\* a call given counter_token_address 0xWETH on a pair whose other token is in
\* neither table returns a validated price converted through the native price
C29_WitnessCallerCounterUsed ==
    \E t \in Tasks :
        /\ Done(t) /\ Res(t).validated
        /\ calls[t].args.counter_token_address = "0xWETH"
        /\ calls[t].pair_other = "0xother"
        /\ calls[t].counter_token = "0xweth"
        /\ \E i \in DOMAIN calls[t].sent : calls[t].sent[i] = "wait_dec_counter"
        /\ Res(t).price_usd = FMul(calls[t].price_in_counter, calls[t].args.native_price_usd)

\* a call that started when both token calls of its pair had completed
\* without an RPC error: the pair's entry was in the token cache
StartedAfterTokens(t) == calls[t].tokens_at_start.set
\* the entry it found lacks a decoded address
StartedAfterMissing(t) ==
    /\ StartedAfterTokens(t)
    /\ "none" \in {calls[t].tokens_at_start.v[1], calls[t].tokens_at_start.v[2]}
IssuedTokenRequest(t) ==
    \E i \in DOMAIN calls[t].sent : calls[t].sent[i] \in {"wait_token0", "wait_token1"}
\* C30 as stated: a validation that starts after token0 and token1 of its pair
\* completed without an RPC error issues no token0/token1 request, and when a
\* decoded address was missing it returns 'token_resolution_missing'
C30_TokensResolvedOnce ==
    \A t \in Tasks :
        /\ StartedAfterTokens(t) => ~IssuedTokenRequest(t)
        /\ StartedAfterMissing(t) /\ Done(t)
              => Res(t).error = "token_resolution_missing"
\* C30 amended: such a validation issues no token0/token1 request, and when a
\* decoded address was missing it returns 'token_resolution_missing' unless it
\* returned before token resolution: without a target token address
\* ('missing_pair_metadata') or on a failed block-number fetch
C30_TokensResolvedOnceWhenReached ==
    \A t \in Tasks :
        /\ StartedAfterTokens(t) => ~IssuedTokenRequest(t)
        /\ StartedAfterMissing(t) /\ Done(t)
              => \/ Res(t).error = "token_resolution_missing"
                 \/ Res(t).error = "missing_pair_metadata"
                    /\ calls[t].args.target_token_address = "none"
                 \/ Res(t).error = "block_number_error"
                    /\ calls[t].failed = "wait_block"
\* a later validation of a pair with a missing decoded address returned
\* 'token_resolution_missing' after fetching the block number only
C30_Witness ==
    \E t \in Tasks :
        /\ StartedAfterMissing(t) /\ Done(t)
        /\ calls[t].sent = <<"wait_block">>
        /\ Res(t).error = "token_resolution_missing"
\* a later validation of a resolved pair was validated without token requests
C30_WitnessResolved ==
    \E t \in Tasks :
        /\ StartedAfterTokens(t) /\ ~StartedAfterMissing(t)
        /\ Done(t) /\ Res(t).validated
        /\ ~IssuedTokenRequest(t)
\* a later validation of a pair with a missing decoded address whose
\* block-number fetch failed
C30_WitnessBlockError ==
    \E t \in Tasks :
        /\ StartedAfterMissing(t) /\ Done(t)
        /\ Res(t).error = "block_number_error"

====
